---- MODULE Spec2Model ----
(***************************************************************************)
(* A model of github.com/twpayne/go-elevation: the GeoTIFF tile decoder    *)
(* (GeoTIFFTile, geotifftile.go) and the tile-set router (GeoTIFFTileSet,  *)
(* geotifftileset.go, the golang-lru variant with the missing-tile map and *)
(* the double-checked mutex).                                              *)
(*                                                                         *)
(* Representation.  float32/float64 samples are integers; noData stands    *)
(* for math.Float32frombits(noDataBits) and NaN for math.NaN().  A nil     *)
(* []float32 is the empty sequence Nil.  A file's compressed tile is a     *)
(* sequence of codes; the uncompressed stream is a sequence of 32-bit      *)
(* words (one word per four bytes).  Errors are strings, "nil" is no error.*)
(***************************************************************************)
EXTENDS Integers, Sequences, FiniteSets, TLC

\* ------------------------------------------------------------------------
\* Bounds of the model.

\* The longest coordinate batch passed to GeoTIFFTile.Samples.
MaxBatch == 2

\* How far (in native units) beyond the raster's extent query coordinates go.
Margin == 1

\* ------------------------------------------------------------------------
\* Values.

noDataBits == 7

noData == -340

NaN == -999

Nil == <<>>

NoErr == "nil"

Coord(x, y) == [X |-> x, Y |-> y]

TileCoord(c, r) == [C |-> c, R |-> r]

Abs(a) == IF a < 0 THEN -a ELSE a

Min(a, b) == IF a < b THEN a ELSE b

Max(a, b) == IF a < b THEN b ELSE a

\* Go's integer division truncates toward zero.
GoDiv(a, b) ==
    IF (a < 0) = (b < 0) THEN Abs(a) \div Abs(b) ELSE -(Abs(a) \div Abs(b))

\* Go's remainder has the sign of the dividend.
GoMod(a, b) == a - b * GoDiv(a, b)

\* All orderings of a finite set, as sequences without repetition.
Perms(S) ==
    {s \in [1..Cardinality(S) -> S] : \A i, j \in 1..Cardinality(S) : s[i] = s[j] => i = j}

\* ------------------------------------------------------------------------
\* The LRU cache of github.com/hashicorp/golang-lru/v2: a sequence of
\* [key, value] entries, most recently used first.

lruContains(cache, key) == \E i \in 1..Len(cache) : cache[i].key = key

lruIndex(cache, key) == CHOOSE i \in 1..Len(cache) : cache[i].key = key

lruRemoveAt(cache, i) == SubSeq(cache, 1, i - 1) \o SubSeq(cache, i + 1, Len(cache))

\* Cache.Get leaving the entry where it is.
lruGetInPlace(cache, key) ==
    IF lruContains(cache, key)
    THEN [ok |-> TRUE, value |-> cache[lruIndex(cache, key)].value, cache |-> cache]
    ELSE [ok |-> FALSE, value |-> Nil, cache |-> cache]

\* Cache.Get: the value, and the entry moved to the front.
lruGet(cache, key) ==
    IF lruContains(cache, key)
    THEN LET i == lruIndex(cache, key) IN
         [ok |-> TRUE, value |-> cache[i].value,
          cache |-> <<cache[i]>> \o lruRemoveAt(cache, i)]
    ELSE [ok |-> FALSE, value |-> Nil, cache |-> cache]

\* Cache.Add: an existing key is updated and moved to the front (no
\* eviction); a new key is pushed to the front and, when the cache is over
\* size, the oldest entry is removed and handed to the eviction callback.
lruAddUnbounded(cache, size, key, value) ==
    [cache |-> <<[key |-> key, value |-> value]>> \o cache,
     eviction |-> FALSE, evicted |-> <<>>]

lruAdd(cache, size, key, value) ==
    IF lruContains(cache, key)
    THEN [cache |-> <<[key |-> key, value |-> value]>> \o lruRemoveAt(cache, lruIndex(cache, key)),
          eviction |-> FALSE, evicted |-> <<>>]
    ELSE LET pushed == <<[key |-> key, value |-> value]>> \o cache IN
         IF Len(pushed) > size
         THEN [cache |-> SubSeq(pushed, 1, Len(pushed) - 1),
               eviction |-> TRUE, evicted |-> <<pushed[Len(pushed)]>>]
         ELSE [cache |-> pushed, eviction |-> FALSE, evicted |-> <<>>]

\* ------------------------------------------------------------------------
\* Files.  A file on disk is a record
\*   [exists, osFile, parses, nIFDs, ifd, disk]
\* exists: fsys.Open finds it; osFile: the handle is an *os.File; parses:
\* tiff.Parse and tiff.UnmarshalIFD succeed; ifd: the unmarshalled
\* geoTIFFIFD; disk: for each tile offset, the bytes stored from that offset
\* to the end of the file.  The float64 tags (ModelPixelScaleTag,
\* ModelTiepointTag) are given in halves: the number v stands for v/2.

GDALNoDataText == "-3.4028234663852886e+038"

\* float64(int(x)) for a float given in halves.
FloatTrunc(v) == 2 * GoDiv(v, 2)

\* int(x) for a float given in halves.
FloatToInt(v) == GoDiv(v, 2)

\* The decoder struct before NewGeoTIFFTile fills it in.
ZeroTile ==
    [closed |-> FALSE, disk |-> <<>>,
     imageWidth |-> 0, imageLength |-> 0, tileWidth |-> 0, tileLength |-> 0,
     tilesAcross |-> 0, tilesDown |-> 0,
     tileOffsets |-> <<>>, tileByteCounts |-> <<>>, smallestTileByteCount |-> 0,
     tileSampleCount |-> 0, tileByteCountUncompressed |-> 0,
     tileCacheSizeBytes |-> 0, tileCacheCount |-> 0,
     tileCache |-> <<>>, emptyTileBytes |-> [isNil |-> TRUE, bytes |-> <<>>],
     emptyTiles |-> {}, mutex |-> "",
     scaleX |-> 0, scaleY |-> 0, translateX |-> 0, translateY |-> 0]

\* The smallest element of a non-empty sequence of numbers.
SeqMin(s) == CHOOSE m \in {s[i] : i \in 1..Len(s)} : \A i \in 1..Len(s) : m <= s[i]

\* The profile check of NewGeoTIFFTile.
ifdSupported(ifd) ==
    ~ (\/ ifd.BitsPerSample # 32
       \/ ifd.Compression # 5
       \/ ifd.PhotometricInterpretation # 1
       \/ ifd.SamplesPerPixel # 1
       \/ ifd.PlanarConfiguration # 1
       \/ ifd.Predictor # 1
       \/ ifd.SampleFormat # 3
       \/ Len(ifd.ModelPixelScaleTag) # 3 \/ ifd.ModelPixelScaleTag[3] # 0
       \/ Len(ifd.ModelTiepointTag) # 6 \/ ifd.ModelTiepointTag[3] # 0
       \/ ifd.ModelTiepointTag[6] # 0
       \/ ifd.GDALNoData # GDALNoDataText)

\* NewGeoTIFFTile from the point where the directory matched the profile:
\* the tile grid, the table lengths, the cache size, the scale and origin.
\* A failure here closes the file (the deferred close).
newTileFromIFD(file, tileCacheSizeBytes) ==
    LET ifd == file.ifd
        fail(e) == [ok |-> FALSE, tile |-> ZeroTile, err |-> e, leaked |-> FALSE]
    IN
    IF ifd.TileWidth = 0 \/ ifd.TileLength = 0 THEN fail("panic: integer divide by zero")
    ELSE
    LET tilesAcross == GoDiv(ifd.ImageWidth + ifd.TileWidth - 1, ifd.TileWidth)
        tilesDown == GoDiv(ifd.ImageLength + ifd.TileLength - 1, ifd.TileLength)
        tilesPerImage == tilesAcross * tilesDown
        tileSampleCount == ifd.TileWidth * ifd.TileLength
        tileByteCountUncompressed == GoDiv(tileSampleCount * ifd.BitsPerSample, 8)
        scale == ifd.ModelPixelScaleTag
        tie == ifd.ModelTiepointTag
    IN
    IF Len(ifd.TileByteCounts) # tilesPerImage \/ Len(ifd.TileOffsets) # tilesPerImage
    THEN fail("incorrect number of tile byte counts or offsets")
    ELSE IF Len(ifd.TileByteCounts) = 0 THEN fail("panic: index out of range")
    ELSE IF tileByteCountUncompressed = 0 THEN fail("panic: integer divide by zero")
    ELSE IF scale[1] # FloatTrunc(scale[1]) \/ scale[2] # FloatTrunc(scale[2]) \/ scale[3] # 0
    THEN fail("unsupported")
    ELSE IF tie[1] # 0 \/ tie[2] # 0 \/ tie[3] # 0 THEN fail("unsupported")
    ELSE IF tie[4] # FloatTrunc(tie[4]) \/ tie[5] # FloatTrunc(tie[5]) \/ tie[6] # 0
    THEN fail("unsupported")
    ELSE [ok |-> TRUE, err |-> NoErr, leaked |-> FALSE,
          tile |-> [ZeroTile EXCEPT
              !.disk = file.disk,
              !.imageWidth = ifd.ImageWidth, !.imageLength = ifd.ImageLength,
              !.tileWidth = ifd.TileWidth, !.tileLength = ifd.TileLength,
              !.tilesAcross = tilesAcross, !.tilesDown = tilesDown,
              !.tileOffsets = ifd.TileOffsets, !.tileByteCounts = ifd.TileByteCounts,
              !.smallestTileByteCount = SeqMin(ifd.TileByteCounts),
              !.tileSampleCount = tileSampleCount,
              !.tileByteCountUncompressed = tileByteCountUncompressed,
              !.tileCacheSizeBytes = tileCacheSizeBytes,
              !.tileCacheCount = Max(GoDiv(tileCacheSizeBytes, tileByteCountUncompressed), 1),
              !.scaleX = FloatToInt(scale[1]), !.scaleY = FloatToInt(scale[2]),
              !.translateX = FloatToInt(tie[4]), !.translateY = FloatToInt(tie[5])]]

\* NewGeoTIFFTile(fsys, filename, WithTileCacheSize(tileCacheSizeBytes)).
\* The result: ok and the decoder, or err; leaked says that the opened
\* handle was left open although no decoder was returned.
NewGeoTIFFTile(file, tileCacheSizeBytes) ==
    LET fail(e, leak) == [ok |-> FALSE, tile |-> ZeroTile, err |-> e, leaked |-> leak] IN
    IF ~file.exists THEN fail("fs.ErrNotExist", FALSE)
    ELSE IF ~file.osFile THEN fail("unsupported", TRUE)
    ELSE IF ~file.parses THEN fail("tiff: parse error", FALSE)
    ELSE IF file.nIFDs # 1 THEN fail("found IFDs, expected 1", FALSE)
    ELSE IF ~ifdSupported(file.ifd) THEN fail("unsupported", FALSE)
    ELSE newTileFromIFD(file, tileCacheSizeBytes)

\* GeoTIFFTile.Close.
Close(t) == [t EXCEPT !.closed = TRUE]

\* ------------------------------------------------------------------------
\* Reading and decoding one tile.

\* The compression scheme (golang.org/x/image/tiff/lzw stands behind it): a
\* code below FillBase is one literal word, a code c >= FillBase repeats the
\* word c - FillBase to the end of the tile.  lzwExpand yields at most n
\* words; fewer when the stream ends early.
FillBase == 10

RECURSIVE lzwExpand(_, _)
lzwExpand(codes, n) ==
    IF n = 0 \/ codes = <<>> THEN <<>>
    ELSE IF Head(codes) >= FillBase THEN [i \in 1..n |-> Head(codes) - FillBase]
    ELSE <<Head(codes)>> \o lzwExpand(Tail(codes), n - 1)

\* math.Float32frombits.
Float32frombits(b) == IF b = noDataBits THEN noData ELSE b

\* f.file.ReadAt(compressedData, tileOffset) for a buffer of count bytes,
\* `stored` being the bytes from the offset to the end of the file: the
\* bytes read and the error (a read that ends early reports io.EOF, a
\* read of a closed file os.ErrClosed).
readStored(closed, stored, count) ==
    IF closed THEN [n |-> 0, data |-> <<>>, err |-> "os.ErrClosed"]
    ELSE IF Len(stored) < count
    THEN [n |-> Len(stored), data |-> stored, err |-> "io.EOF"]
    ELSE [n |-> count, data |-> SubSeq(stored, 1, count), err |-> NoErr]

ReadAt(t, tileOffset, count) ==
    readStored(t.closed, IF t.closed THEN <<>> ELSE t.disk[tileOffset], count)

\* The switch of getCompressedTileData on the outcome rd of ReadAt: isNil
\* when the bytes equal the learned empty-tile bytes.
compressedTileDataOf(t, tileByteCount, rd) ==
    IF rd.err # NoErr THEN [isNil |-> TRUE, data |-> <<>>, err |-> rd.err]
    ELSE IF rd.n # tileByteCount THEN [isNil |-> TRUE, data |-> <<>>, err |-> "short read"]
    ELSE IF ~t.emptyTileBytes.isNil /\ rd.data = t.emptyTileBytes.bytes
    THEN [isNil |-> TRUE, data |-> <<>>, err |-> NoErr]
    ELSE [isNil |-> FALSE, data |-> rd.data, err |-> NoErr]

\* getCompressedTileData: the compressed bytes of the tile.
getCompressedTileData(t, localTileCoord) ==
    LET tileIndex == localTileCoord.C + t.tilesAcross * localTileCoord.R IN
    compressedTileDataOf(t, t.tileByteCounts[tileIndex + 1],
        ReadAt(t, t.tileOffsets[tileIndex + 1], t.tileByteCounts[tileIndex + 1]))

\* decompressTileData: tileByteCountUncompressed bytes, here one word per
\* BitsPerSample/8 bytes (words: what the reader yields); the reader's
\* error when the stream ends early.
decompressedOf(t, words) ==
    IF Len(words) < t.tileSampleCount
    THEN [data |-> <<>>, err |-> "unexpected EOF"]
    ELSE [data |-> words, err |-> NoErr]

decompressTileData(t, compressedData) ==
    decompressedOf(t, lzwExpand(compressedData, t.tileSampleCount))

\* decodeTileData.
decodeTileData(t, tileData) ==
    [i \in 1..t.tileSampleCount |-> Float32frombits(tileData[i])]

\* The scan of getTileSamples: every sample equals noData.
isEmptyTile(tileSamples) == \A i \in 1..Len(tileSamples) : tileSamples[i] = noData

\* The examination for emptiness made of a decoded tile of any size.
learnsEmptyTileAnySize(t, compressedTileData) == t.emptyTileBytes.isNil

\* The condition under which getTileSamples examines a decoded tile for
\* emptiness.
learnsEmptyTile(t, compressedTileData) ==
    t.emptyTileBytes.isNil /\ Len(compressedTileData) = t.smallestTileByteCount

\* The end of getTileSamples, with the decoded tileSamples: the empty-tile
\* bytes are learned from an all-no-data tile of the smallest size.
tileSamplesDecoded(t, compressedTileData, tileSamples) ==
    IF learnsEmptyTile(t, compressedTileData) /\ isEmptyTile(tileSamples)
    THEN [t |-> [t EXCEPT !.emptyTileBytes = [isNil |-> FALSE, bytes |-> compressedTileData]],
          samples |-> Nil, err |-> NoErr]
    ELSE [t |-> t, samples |-> tileSamples, err |-> NoErr]

\* getTileSamples after decompression (d is decompressTileData's result).
tileSamplesDecompressed(t, compressedTileData, d) ==
    IF d.err # NoErr THEN [t |-> t, samples |-> Nil, err |-> d.err]
    ELSE tileSamplesDecoded(t, compressedTileData, decodeTileData(t, d.data))

\* getTileSamples after the read (c is getCompressedTileData's result).
tileSamplesRead(t, c) ==
    IF c.err # NoErr THEN [t |-> t, samples |-> Nil, err |-> c.err]
    ELSE IF c.isNil THEN [t |-> t, samples |-> Nil, err |-> NoErr]
    ELSE tileSamplesDecompressed(t, c.data, decompressTileData(t, c.data))

\* getTileSamples: [t, samples, err]; t changes when the empty-tile bytes
\* are learned.  samples = Nil is the empty tile.
getTileSamples(t, localTileCoord) ==
    tileSamplesRead(t, getCompressedTileData(t, localTileCoord))

\* The end of getTileSamplesCached keeping every decoded tile it stores.
storeTileSamplesKeepAll(localTileCoord, g) ==
    IF g.err # NoErr THEN [t |-> g.t, samples |-> Nil, err |-> g.err, read |-> TRUE]
    ELSE IF g.samples = Nil
    THEN [t |-> [g.t EXCEPT !.emptyTiles = @ \cup {localTileCoord}],
          samples |-> Nil, err |-> NoErr, read |-> TRUE]
    ELSE [t |-> [g.t EXCEPT !.tileCache =
                     <<[key |-> localTileCoord, value |-> g.samples]>> \o @],
          samples |-> g.samples, err |-> NoErr, read |-> TRUE]

\* The end of getTileSamplesCached putting the empty tile in the cache as
\* well.
storeTileSamplesCacheEmpty(localTileCoord, g) ==
    IF g.err # NoErr THEN [t |-> g.t, samples |-> Nil, err |-> g.err, read |-> TRUE]
    ELSE [t |-> [g.t EXCEPT !.emptyTiles =
                                IF g.samples = Nil THEN @ \cup {localTileCoord} ELSE @,
                            !.tileCache =
                     lruAdd(@, g.t.tileCacheCount, localTileCoord, g.samples).cache],
          samples |-> g.samples, err |-> NoErr, read |-> TRUE]

\* The end of getTileSamplesCached marking a tile that failed to load as
\* empty.
storeTileSamplesErrorEmpty(localTileCoord, g) ==
    IF g.err # NoErr \/ g.samples = Nil
    THEN [t |-> [g.t EXCEPT !.emptyTiles = @ \cup {localTileCoord}],
          samples |-> Nil, err |-> g.err, read |-> TRUE]
    ELSE [t |-> [g.t EXCEPT !.tileCache =
                     lruAdd(@, g.t.tileCacheCount, localTileCoord, g.samples).cache],
          samples |-> g.samples, err |-> NoErr, read |-> TRUE]

\* The end of getTileSamplesCached: the loaded tile (g is getTileSamples'
\* result) is stored as a known empty tile or in the cache.
storeTileSamples(localTileCoord, g) ==
    IF g.err # NoErr THEN [t |-> g.t, samples |-> Nil, err |-> g.err, read |-> TRUE]
    ELSE IF g.samples = Nil
    THEN [t |-> [g.t EXCEPT !.emptyTiles = @ \cup {localTileCoord}],
          samples |-> Nil, err |-> NoErr, read |-> TRUE]
    ELSE [t |-> [g.t EXCEPT !.tileCache =
                     lruAdd(@, g.t.tileCacheCount, localTileCoord, g.samples).cache],
          samples |-> g.samples, err |-> NoErr, read |-> TRUE]

\* The checks of getTileSamplesCached consulting the known-empty set only.
checkTileCachesEmptyOnly(t, localTileCoord, hit) ==
    IF localTileCoord \in t.emptyTiles
    THEN [done |-> TRUE, t |-> t, samples |-> Nil, err |-> NoErr, read |-> FALSE]
    ELSE [done |-> FALSE, t |-> t, samples |-> Nil, err |-> NoErr, read |-> FALSE]

\* The two checks of getTileSamplesCached (made once without the mutex and
\* once with it): the known-empty set, then the cache (hit is
\* tileCache.Get's result).  done = FALSE when both miss.
checkTileCaches(t, localTileCoord, hit) ==
    IF localTileCoord \in t.emptyTiles
    THEN [done |-> TRUE, t |-> t, samples |-> Nil, err |-> NoErr, read |-> FALSE]
    ELSE IF hit.ok
    THEN [done |-> TRUE, t |-> [t EXCEPT !.tileCache = hit.cache], samples |-> hit.value,
          err |-> NoErr, read |-> FALSE]
    ELSE [done |-> FALSE, t |-> t, samples |-> Nil, err |-> NoErr, read |-> FALSE]

tileCachesChecked(t, localTileCoord) ==
    checkTileCaches(t, localTileCoord, lruGet(t.tileCache, localTileCoord))

\* The checks of getTileSamplesCached left out once the mutex is held.
recheckTileCachesSkipped(t, localTileCoord) ==
    [done |-> FALSE, t |-> t, samples |-> Nil, err |-> NoErr, read |-> FALSE]

\* The checks of getTileSamplesCached repeated once the mutex is held.
recheckTileCaches(t, localTileCoord) == tileCachesChecked(t, localTileCoord)

\* The part of getTileSamplesCached that runs with the mutex held: the
\* recheck (chk), else load and store.  read says whether the file was read.
tileSamplesLockedOf(t, localTileCoord, chk) ==
    IF chk.done THEN [t |-> chk.t, samples |-> chk.samples, err |-> chk.err, read |-> FALSE]
    ELSE storeTileSamples(localTileCoord, getTileSamples(t, localTileCoord))

getTileSamplesLocked(t, localTileCoord) ==
    tileSamplesLockedOf(t, localTileCoord, recheckTileCaches(t, localTileCoord))

\* getTileSamplesCached run by one caller without interference: the
\* lock-free checks (chk), then the locked part.
tileSamplesCachedOf(t, localTileCoord, chk) ==
    IF chk.done THEN [t |-> chk.t, samples |-> chk.samples, err |-> chk.err, read |-> FALSE]
    ELSE getTileSamplesLocked(t, localTileCoord)

getTileSamplesCached(t, localTileCoord) ==
    tileSamplesCachedOf(t, localTileCoord, tileCachesChecked(t, localTileCoord))

\* ------------------------------------------------------------------------
\* Coordinates.

\* localCoord: the pixel of a native coordinate.
localCoord(t, coord) ==
    Coord(GoDiv(coord.X - t.translateX, t.scaleX),
          GoDiv(-(coord.Y - t.translateY), t.scaleY))

\* localTileCoord: the tile of a pixel, ok = FALSE outside the image.
localTileCoord(t, lc) ==
    IF lc.X < 0 \/ t.imageWidth <= lc.X \/ lc.Y < 0 \/ t.imageLength <= lc.Y
    THEN [ok |-> FALSE, tc |-> TileCoord(0, 0)]
    ELSE [ok |-> TRUE, tc |-> TileCoord(GoDiv(lc.X, t.tileWidth), GoDiv(lc.Y, t.tileLength))]

\* tileSample reading the tile's first row whatever the pixel's row.
tileSampleFirstRow(t, tileSamples, lc) ==
    IF tileSamples = Nil THEN NaN
    ELSE LET sample == tileSamples[GoMod(lc.X, t.tileWidth) + 1] IN
         IF sample = noData THEN NaN ELSE sample

\* tileSample: the sample of a pixel in its tile's samples.
tileSample(t, tileSamples, lc) ==
    IF tileSamples = Nil THEN NaN
    ELSE LET sample == tileSamples[GoMod(lc.X, t.tileWidth)
                                   + GoMod(lc.Y, t.tileLength) * t.tileWidth + 1] IN
         IF sample = noData THEN NaN ELSE sample

\* ------------------------------------------------------------------------
\* GeoTIFFTile.Sample and GeoTIFFTile.Samples.  A result is
\*   [t, val, err, fetched, reads]
\* t: the decoder afterwards; val: the returned value(s); fetched: the
\* tiles passed to getTileSamplesCached, in order; reads: those of them
\* for which the file was read.

\* The end of Sample, with the tile's samples (g is
\* getTileSamplesCached's result).
sampleOfTile(lc, tc, g) ==
    IF g.err # NoErr
    THEN [t |-> g.t, val |-> <<0>>, err |-> g.err, fetched |-> <<tc>>,
          reads |-> IF g.read THEN <<tc>> ELSE <<>>]
    ELSE [t |-> g.t, val |-> <<tileSample(g.t, g.samples, lc)>>, err |-> NoErr,
          fetched |-> <<tc>>, reads |-> IF g.read THEN <<tc>> ELSE <<>>]

\* Sample from the local tile coordinate on.
sampleAt(t, lc, ltc) ==
    IF ~ltc.ok
    THEN [t |-> t, val |-> <<NaN>>, err |-> NoErr, fetched |-> <<>>, reads |-> <<>>]
    ELSE sampleOfTile(lc, ltc.tc, getTileSamplesCached(t, ltc.tc))

sampleLocal(t, lc) == sampleAt(t, lc, localTileCoord(t, lc))

\* Sample: val is a one-element sequence, <<0>> with an error.
Sample(t, coord) == sampleLocal(t, localCoord(t, coord))

\* The first loops of Samples: the local coordinates, the samples array
\* (zero, NaN outside the image) and the indexes grouped by local tile.
samplesLocalCoords(t, coords) == [i \in 1..Len(coords) |-> localCoord(t, coords[i])]

\* samplesInitial without the NaN written for a coordinate outside the image.
samplesInitialAllZero(t, localCoords) == [i \in 1..Len(localCoords) |-> 0]

samplesInitial(t, localCoords) ==
    [i \in 1..Len(localCoords) |->
        IF localTileCoord(t, localCoords[i]).ok THEN 0 ELSE NaN]

indexesByLocalTileCoord(t, localCoords) ==
    LET inside == {i \in 1..Len(localCoords) : localTileCoord(t, localCoords[i]).ok}
        tiles == {localTileCoord(t, localCoords[i]).tc : i \in inside}
    IN [tc \in tiles |-> {i \in inside : localTileCoord(t, localCoords[i]).tc = tc}]

\* One round of the second loop of Samples: the samples of the group of
\* tile tc filled in from the tile's samples.
scatterTile(t, localCoords, group, tileSamples, samples) ==
    [i \in 1..Len(samples) |->
        IF i \in group THEN tileSample(t, tileSamples, localCoords[i]) ELSE samples[i]]

\* The second loop of Samples, over the map in the iteration order `order`
\* (Go leaves the order of a map range unspecified), from its k-th tile.
\* acc is [samples, fetched, reads] so far; g is getTileSamplesCached's
\* result for the k-th tile.
RECURSIVE samplesLoop(_, _, _, _, _, _)
\* A round that fetches the tile once for every index of its group.
samplesRoundPerIndex(localCoords, groups, order, k, acc, g) ==
    LET fetches == [j \in 1..Cardinality(groups[order[k]]) |-> order[k]] IN
    IF g.err # NoErr
    THEN [t |-> g.t, val |-> Nil, err |-> g.err,
          fetched |-> acc.fetched \o fetches,
          reads |-> IF g.read THEN Append(acc.reads, order[k]) ELSE acc.reads]
    ELSE samplesLoop(g.t, localCoords, groups, order, k + 1,
            [samples |-> scatterTile(g.t, localCoords, groups[order[k]], g.samples, acc.samples),
             fetched |-> acc.fetched \o fetches,
             reads |-> IF g.read THEN Append(acc.reads, order[k]) ELSE acc.reads])

samplesRound(localCoords, groups, order, k, acc, g) ==
    IF g.err # NoErr
    THEN [t |-> g.t, val |-> Nil, err |-> g.err,
          fetched |-> Append(acc.fetched, order[k]),
          reads |-> IF g.read THEN Append(acc.reads, order[k]) ELSE acc.reads]
    ELSE samplesLoop(g.t, localCoords, groups, order, k + 1,
            [samples |-> scatterTile(g.t, localCoords, groups[order[k]], g.samples, acc.samples),
             fetched |-> Append(acc.fetched, order[k]),
             reads |-> IF g.read THEN Append(acc.reads, order[k]) ELSE acc.reads])

samplesLoop(t, localCoords, groups, order, k, acc) ==
    IF k > Len(order)
    THEN [t |-> t, val |-> acc.samples, err |-> NoErr,
          fetched |-> acc.fetched, reads |-> acc.reads]
    ELSE samplesRound(localCoords, groups, order, k, acc, getTileSamplesCached(t, order[k]))

samplesOfLocal(t, localCoords, order) ==
    samplesLoop(t, localCoords, indexesByLocalTileCoord(t, localCoords), order, 1,
                [samples |-> samplesInitial(t, localCoords), fetched |-> <<>>, reads |-> <<>>])

\* Samples(coords), the map ranged over in the order `order`.
Samples(t, coords, order) == samplesOfLocal(t, samplesLocalCoords(t, coords), order)

\* The iteration orders of Samples(coords).
SamplesOrders(t, coords) ==
    Perms(DOMAIN indexesByLocalTileCoord(t, samplesLocalCoords(t, coords)))

\* ------------------------------------------------------------------------
\* The files the decoder is run on: a raster of 3 x 2 pixels in tiles of
\* 2 x 2 (two tiles, the second half outside the image), pixel size 2 x 2,
\* origin (2, 6); every tile holds one of TileContents.

\* What one tile's byte range holds, [count, stored]: the recorded byte
\* count and the bytes stored at the offset.
TileContents ==
    { [count |-> 1, stored |-> <<FillBase + noDataBits>>],      \* empty, smallest
      [count |-> 1, stored |-> <<FillBase + 1>>],               \* uniform data, smallest
      [count |-> 2, stored |-> <<noDataBits, FillBase + noDataBits>>],  \* empty, longer bytes
      [count |-> 4, stored |-> <<1, noDataBits, 2, 3>>],         \* data with one no-data pixel
      [count |-> 2, stored |-> <<1, 2>>],                       \* stream ends early
      [count |-> 2, stored |-> <<FillBase + 1>>] }              \* file ends early

SupportedIFD(g, counts) ==
    [ImageWidth |-> g.width, ImageLength |-> g.length, BitsPerSample |-> 32,
     Compression |-> 5, PhotometricInterpretation |-> 1, SamplesPerPixel |-> 1,
     PlanarConfiguration |-> 1, Predictor |-> 1,
     TileWidth |-> g.tileWidth, TileLength |-> g.tileLength,
     TileOffsets |-> [i \in 1..Len(counts) |-> i], TileByteCounts |-> counts,
     SampleFormat |-> 3,
     ModelPixelScaleTag |-> <<2 * g.scaleX, 2 * g.scaleY, 0>>,
     ModelTiepointTag |-> <<0, 0, 0, 2 * g.originX, 2 * g.originY, 0>>,
     GDALNoData |-> GDALNoDataText]

\* The file of geometry g (image and tile size, pixel size, origin) whose
\* tiles hold `contents`.
RasterFile(g, contents) ==
    [exists |-> TRUE, osFile |-> TRUE, parses |-> TRUE, nIFDs |-> 1,
     ifd |-> SupportedIFD(g, [i \in 1..Len(contents) |-> contents[i].count]),
     disk |-> [i \in 1..Len(contents) |-> contents[i].stored]]

DecoderGeometry ==
    [width |-> 3, length |-> 2, tileWidth |-> 2, tileLength |-> 2,
     scaleX |-> 2, scaleY |-> 2, originX |-> 2, originY |-> 6]

DecoderFiles == {RasterFile(DecoderGeometry, c) : c \in [1..2 -> TileContents]}

\* The byte budget given to WithTileCacheSize: room for one decoded tile.
DecoderCacheBytes == 16

\* The byte budgets given to WithTileCacheSize: none, room for one decoded
\* tile and room for two.
CacheBudgets == {0, DecoderCacheBytes, 2 * DecoderCacheBytes}

\* The query coordinates of Sample: every native coordinate from Margin
\* beyond the extent on each side.
SampleCoords(t) ==
    {Coord(x, y) :
        x \in (t.translateX - Margin)..(t.translateX + t.imageWidth * t.scaleX + Margin - 1),
        y \in (t.translateY - t.imageLength * t.scaleY - Margin + 1)..(t.translateY + Margin)}

\* The coordinates batches are made of: the origin of every pixel, the
\* coordinate one unit west of the raster's origin and the first one east
\* of the extent.
BatchCoords(t) ==
    {Coord(t.translateX + px * t.scaleX, t.translateY - py * t.scaleY) :
        px \in 0..(t.imageWidth - 1), py \in 0..(t.imageLength - 1)}
    \cup {Coord(t.translateX - 1, t.translateY),
          Coord(t.translateX + t.imageWidth * t.scaleX, t.translateY)}

SeqsUpTo(S, n) == UNION {[1..k -> S] : k \in 0..n}

\* ------------------------------------------------------------------------
\* The files NewGeoTIFFTile is called on directly.

\* The largest image width and the longest tile table of those files.
MaxImageWidth == 3
MaxTableLen == 4

\* Image and tile sizes, zero included.
OpenGeometries ==
    {[width |-> w, length |-> l, tileWidth |-> tw, tileLength |-> tl,
      scaleX |-> 2, scaleY |-> 2, originX |-> 2, originY |-> 6] :
        w \in 0..MaxImageWidth, l \in 1..2, tw \in 0..2, tl \in 0..2}

\* A file of geometry g whose tables have nOffsets and nCounts entries,
\* every tile stored as a uniform tile.
TableFile(g, nOffsets, nCounts) ==
    [exists |-> TRUE, osFile |-> TRUE, parses |-> TRUE, nIFDs |-> 1,
     ifd |-> [SupportedIFD(g, [i \in 1..nCounts |-> 1])
                 EXCEPT !.TileOffsets = [i \in 1..nOffsets |-> i]],
     disk |-> [i \in 1..nOffsets |-> <<FillBase + 1>>]]

\* The ways a file departs from what NewGeoTIFFTile accepts, one at a time.
Deviations ==
    {"none", "NotExist", "NotOSFile", "ParseError", "TwoIFDs",
     "BitsPerSample", "Compression", "PhotometricInterpretation", "SamplesPerPixel",
     "PlanarConfiguration", "Predictor", "SampleFormat",
     "ScaleLength", "ScaleZ", "TiepointLength", "TiepointK", "TiepointZ", "GDALNoData",
     "ScaleFraction", "TiepointI", "OriginFraction"}

deviate(file, d) ==
    CASE d = "NotExist" -> [file EXCEPT !.exists = FALSE]
      [] d = "NotOSFile" -> [file EXCEPT !.osFile = FALSE]
      [] d = "ParseError" -> [file EXCEPT !.parses = FALSE]
      [] d = "TwoIFDs" -> [file EXCEPT !.nIFDs = 2]
      [] d = "BitsPerSample" -> [file EXCEPT !.ifd.BitsPerSample = 16]
      [] d = "Compression" -> [file EXCEPT !.ifd.Compression = 1]
      [] d = "PhotometricInterpretation" -> [file EXCEPT !.ifd.PhotometricInterpretation = 2]
      [] d = "SamplesPerPixel" -> [file EXCEPT !.ifd.SamplesPerPixel = 3]
      [] d = "PlanarConfiguration" -> [file EXCEPT !.ifd.PlanarConfiguration = 2]
      [] d = "Predictor" -> [file EXCEPT !.ifd.Predictor = 2]
      [] d = "SampleFormat" -> [file EXCEPT !.ifd.SampleFormat = 1]
      [] d = "ScaleLength" -> [file EXCEPT !.ifd.ModelPixelScaleTag = <<4, 4>>]
      [] d = "ScaleZ" -> [file EXCEPT !.ifd.ModelPixelScaleTag[3] = 2]
      [] d = "TiepointLength" -> [file EXCEPT !.ifd.ModelTiepointTag = <<0, 0, 0, 4, 12>>]
      [] d = "TiepointK" -> [file EXCEPT !.ifd.ModelTiepointTag[3] = 2]
      [] d = "TiepointZ" -> [file EXCEPT !.ifd.ModelTiepointTag[6] = 2]
      [] d = "GDALNoData" -> [file EXCEPT !.ifd.GDALNoData = "-9999"]
      [] d = "ScaleFraction" -> [file EXCEPT !.ifd.ModelPixelScaleTag[1] = 3]
      [] d = "TiepointI" -> [file EXCEPT !.ifd.ModelTiepointTag[1] = 2]
      [] d = "OriginFraction" -> [file EXCEPT !.ifd.ModelTiepointTag[5] = 13]
      [] OTHER -> file

\* The file of geometry g with tables of nOffsets and nCounts entries and
\* deviation d, as an *os.File (os) or as a file of another fs.FS.
OpenInput(g, nOffsets, nCounts, d, os) ==
    [deviate(TableFile(g, nOffsets, nCounts), d) EXCEPT !.osFile = @ /\ os]

\* ------------------------------------------------------------------------
\* GeoTIFFTileSet, the variant built on the LRU cache of decoders, the
\* missing-tile map and the mutex.  The tile set s is a record
\*   [missingTiles, geoTIFFTileCache, mutex, heap, openErrors]
\* mutex: the goroutine holding s.mutex ("" when free).  The decoders live
\* in s.heap, a function from handles to [t, closes, pins]: t the
\* GeoTIFFTile, closes the calls of Close on it, pins the goroutines
\* holding it in a local variable.  A handle [tc, gen] names a decoder of
\* tile coordinate tc; a handle whose decoder nothing refers to any more
\* (not cached, not pinned) is free for the next decoder of tc, and such
\* decoders leave the heap when a goroutine lets go of a decoder.
\* openErrors[tc] counts the calls of NewGeoTIFFTile for tc that returned
\* an error.

\* WithCacheSize: the capacity of geoTIFFTileCache.
cacheSize == 1

\* The cap on the failed calls of NewGeoTIFFTile per tile coordinate.
MaxOpenErrors == 2

\* The longest batch given to GeoTIFFTileSet.Samples.
MaxSetBatch == 2

\* The side of one file's square, in native units.
CellSize == 2

\* WithTileCoordFunc: the policy of NewEUDEM on squares of side CellSize,
\* without coverage west of 0.
tileCoordFunc(coord) ==
    IF coord.X < 0 THEN [ok |-> FALSE, tc |-> TileCoord(0, 0)]
    ELSE [ok |-> TRUE,
          tc |-> TileCoord(GoDiv(coord.X, CellSize), GoDiv(coord.Y, CellSize))]

\* WithTileFilenameFunc: the name carries the two numbers of the tile
\* coordinate.
tileFilenameFunc(tileCoord) == [E |-> tileCoord.C, N |-> tileCoord.R]

\* The raster of the file of tileCoord: CellSize x 1 pixels of size 1 in
\* one tile, its origin at the square's west end.
SetGeometry(tileCoord) ==
    [width |-> CellSize, length |-> 1, tileWidth |-> CellSize, tileLength |-> 1,
     scaleX |-> 1, scaleY |-> 1, originX |-> tileCoord.C * CellSize, originY |-> 0]

SetRaster(tileCoord, count, stored) ==
    RasterFile(SetGeometry(tileCoord), <<[count |-> count, stored |-> stored]>>)

\* WithFS: the files of the set by name.  E 0 and 1: rasters; E 2 and 5:
\* no file; E 3: a GeoTIFF of an unsupported profile; E 4: a raster whose
\* tile data ends early.
SetFS(filename) ==
    LET tc == TileCoord(filename.E, filename.N) IN
    IF filename.N # 0 THEN [SetRaster(tc, 1, <<>>) EXCEPT !.exists = FALSE]
    ELSE CASE filename.E = 0 -> SetRaster(tc, 2, <<1, noDataBits>>)
           [] filename.E = 1 -> SetRaster(tc, 2, <<2, 3>>)
           [] filename.E = 3 -> [SetRaster(tc, 2, <<2, 3>>) EXCEPT !.ifd.BitsPerSample = 16]
           [] filename.E = 4 -> SetRaster(tc, 1, <<1>>)
           [] OTHER -> [SetRaster(tc, 1, <<>>) EXCEPT !.exists = FALSE]

\* The tile coordinates of the set's files and of the missing ones.
SetTileCoords == {TileCoord(c, 0) : c \in 0..5}

\* WithGeoTIFFTileOptions(WithTileCacheSize(...)).
SetTileCacheBytes == 16

\* The goroutines calling the tile set concurrently.
Procs == {"p1", "p2"}

\* The handles one tile coordinate can need at a time: one per goroutine
\* holding a decoder of its own and the cached one.
Slots == Cardinality(Procs) + 1

NoHandle == [tc |-> TileCoord(0, 0), gen |-> 0]

NewGeoTIFFTileSet ==
    [missingTiles |-> {}, geoTIFFTileCache |-> <<>>, mutex |-> "", heap |-> <<>>,
     openErrors |-> [tc \in SetTileCoords |-> 0], cacheSize |-> cacheSize]

\* WithCacheSize.
WithCacheSize(s, n) == [s EXCEPT !.cacheSize = n]

\* The handle is free: never used, or its decoder unreachable.
slotFree(s, h) ==
    \/ h \notin DOMAIN s.heap
    \/ /\ s.heap[h].pins = 0
       /\ \A i \in 1..Len(s.geoTIFFTileCache) : s.geoTIFFTileCache[i].value # h

\* The handle the next decoder of tileCoord gets.
newHandle(s, tileCoord) ==
    [tc |-> tileCoord,
     gen |-> CHOOSE g \in 1..Slots :
                 /\ slotFree(s, [tc |-> tileCoord, gen |-> g])
                 /\ \A g2 \in 1..(g - 1) : ~slotFree(s, [tc |-> tileCoord, gen |-> g2])]

\* The decoder t is allocated under handle h, held by its creator.
allocTile(s, h, t) ==
    [s EXCEPT !.heap = (h :> [t |-> t, closes |-> 0, pins |-> 1]) @@ @]

\* The decoders nothing refers to any more are collected.
collect(s) ==
    [s EXCEPT !.heap =
        [h \in {x \in DOMAIN s.heap :
                    \/ s.heap[x].pins > 0
                    \/ \E i \in 1..Len(s.geoTIFFTileCache) : s.geoTIFFTileCache[i].value = x}
            |-> s.heap[h]]]

\* A goroutine takes, or lets go of, the decoder h.
pinTile(s, h) == [s EXCEPT !.heap[h].pins = @ + 1]
unpinTile(s, h) == collect([s EXCEPT !.heap[h].pins = @ - 1])

\* What a lookup of a tile returns: [s, isNil, tile, err, probed, touched]
\* probed: NewGeoTIFFTile was called; touched: geoTIFFTileCache was used.
tileIsNil(s, err, probed, touched) ==
    [s |-> s, isNil |-> TRUE, tile |-> NoHandle, err |-> err,
     probed |-> probed, touched |-> touched]

tileIs(s, h, probed) ==
    [s |-> s, isNil |-> FALSE, tile |-> h, err |-> NoErr, probed |-> probed, touched |-> TRUE]

\* The switch of getTile on the outcome r of NewGeoTIFFTile, which touches
\* the missing-tile map.
tileGotAllMissing(s, tileCoord, r) ==
    IF r.err # NoErr
    THEN tileIsNil([s EXCEPT !.missingTiles = @ \cup {tileCoord},
                             !.openErrors[tileCoord] = @ + 1], NoErr, TRUE, TRUE)
    ELSE tileIs(allocTile(s, newHandle(s, tileCoord), r.tile), newHandle(s, tileCoord), TRUE)

tileGot(s, tileCoord, r) ==
    IF r.err = "fs.ErrNotExist"
    THEN tileIsNil([s EXCEPT !.missingTiles = @ \cup {tileCoord},
                             !.openErrors[tileCoord] = @ + 1], NoErr, TRUE, TRUE)
    ELSE IF r.err # NoErr
    THEN tileIsNil([s EXCEPT !.openErrors[tileCoord] = @ + 1], r.err, TRUE, TRUE)
    ELSE tileIs(allocTile(s, newHandle(s, tileCoord), r.tile), newHandle(s, tileCoord), TRUE)

\* getTile.
getTile(s, tileCoord) ==
    tileGot(s, tileCoord,
        NewGeoTIFFTile(SetFS(tileFilenameFunc(tileCoord)), SetTileCacheBytes))

\* The two lookups getTileCached makes, before and again under the mutex:
\* missingTiles.Load, then geoTIFFTileCache.Get whose outcome is hit.
\* done: one of them answered.
tileLookedUp(s, tileCoord, hit) ==
    IF tileCoord \in s.missingTiles
    THEN [done |-> TRUE, r |-> tileIsNil(s, NoErr, FALSE, FALSE)]
    ELSE IF hit.ok
    THEN [done |-> TRUE,
          r |-> tileIs(pinTile([s EXCEPT !.geoTIFFTileCache = hit.cache], hit.value),
                       hit.value, FALSE)]
    ELSE [done |-> FALSE, r |-> tileIsNil(s, NoErr, FALSE, TRUE)]

lookupTile(s, tileCoord) ==
    tileLookedUp(s, tileCoord, lruGet(s.geoTIFFTileCache, tileCoord))

\* geoTIFFTileCache.Add with the eviction callback of NewGeoTIFFTileSet
\* (value.Close()), a the outcome of the cache's Add.
tileAddedNoClose(s, a) == [s EXCEPT !.geoTIFFTileCache = a.cache]

\* The Add whose eviction callback closes the decoder while the cache
\* keeps what it held.
tileAddedKeepEvicted(s, a) ==
    IF a.eviction /\ a.evicted[1].value # NoHandle
    THEN [s EXCEPT !.heap[a.evicted[1].value].t = Close(@),
                   !.heap[a.evicted[1].value].closes = @ + 1]
    ELSE [s EXCEPT !.geoTIFFTileCache = a.cache]

\* The entry the Add evicted holds the nil decoder of a missing file.
tileEvictsNil(a) == a.eviction /\ a.evicted[1].value = NoHandle

\* The tile set after the Add: the evicted decoder is closed by the
\* callback; on a nil decoder the callback panics, closing nothing.
tileAdded(s, a) ==
    IF a.eviction /\ ~tileEvictsNil(a)
    THEN [s EXCEPT !.geoTIFFTileCache = a.cache,
                   !.heap[a.evicted[1].value].t = Close(@),
                   !.heap[a.evicted[1].value].closes = @ + 1]
    ELSE [s EXCEPT !.geoTIFFTileCache = a.cache]

\* The goroutine that got g lets go of its decoder.
tileReleased(s, g) == IF g.isNil THEN s ELSE unpinTile(s, g.tile)

\* getTileCached after the Add of what getTile returned (a its outcome):
\* the eviction callback calls Close on the evicted value, which panics on
\* the nil decoder of a missing file; the panic leaves getTileCached and
\* Samples.
tileStoredOf(g, a) ==
    IF tileEvictsNil(a)
    THEN tileIsNil(tileReleased(tileAdded(g.s, a), g), "panic: nil pointer dereference",
                   g.probed, TRUE)
    ELSE [g EXCEPT !.s = tileAdded(g.s, a)]

\* The end of getTileCached, g what getTile returned: an error is returned
\* as it is; the tile, a decoder or the nil of a missing file, is added to
\* the cache.
tileStored(tileCoord, g) ==
    IF g.err # NoErr THEN g
    ELSE tileStoredOf(g, lruAdd(g.s.geoTIFFTileCache, g.s.cacheSize, tileCoord, g.tile))

\* The lookups repeated once the mutex is held.
recheckTileSkipped(s, tileCoord) == [done |-> FALSE, r |-> tileIsNil(s, NoErr, FALSE, TRUE)]

recheckTile(s, tileCoord) == lookupTile(s, tileCoord)

\* getTileCached under the mutex, chk the outcome of the repeated lookups.
tileLockedOf(s, tileCoord, chk) ==
    IF chk.done THEN chk.r ELSE tileStored(tileCoord, getTile(s, tileCoord))

getTileLocked(s, tileCoord) == tileLockedOf(s, tileCoord, recheckTile(s, tileCoord))

\* getTileCached run without interruption, chk the outcome of the first
\* lookups.
tileCachedOf(s, tileCoord, chk) ==
    IF chk.done THEN chk.r ELSE getTileLocked(s, tileCoord)

getTileCached(s, tileCoord) == tileCachedOf(s, tileCoord, lookupTile(s, tileCoord))

\* GeoTIFFTileSet.Samples.  groupsByTileCoord[tileCoord].indexes and
\* .coords, in the order of the batch.
groupIndexes(coords, tileCoord) ==
    SelectSeq([i \in 1..Len(coords) |-> i],
              LAMBDA i : tileCoordFunc(coords[i]).ok /\ tileCoordFunc(coords[i]).tc = tileCoord)

groupCoords(coords, tileCoord) ==
    [k \in 1..Len(groupIndexes(coords, tileCoord)) |-> coords[groupIndexes(coords, tileCoord)[k]]]

\* The keys of groupsByTileCoord.
groupTileCoords(coords) ==
    {tileCoordFunc(coords[i]).tc : i \in {j \in 1..Len(coords) : tileCoordFunc(coords[j]).ok}}

\* The grouping loop without its NaN for a coordinate without coverage.
setSamplesInitialZero(coords) == [i \in 1..Len(coords) |-> 0]

\* samples after the grouping loop: NaN where tileCoordFunc reports no
\* coverage, the zero value elsewhere.
setSamplesInitial(coords) ==
    [i \in 1..Len(coords) |-> IF tileCoordFunc(coords[i]).ok THEN 0 ELSE NaN]

\* The loop writing NaN at a group's indexes.
scatterNaN(indexes, samples) ==
    [i \in 1..Len(samples) |->
        IF \E k \in 1..Len(indexes) : indexes[k] = i THEN NaN ELSE samples[i]]

\* The loop writing localSamples[localIndex] at indexes[localIndex].
scatterLocalInPlace(indexes, localSamples, samples) ==
    [i \in 1..Len(samples) |->
        IF i <= Len(localSamples) THEN localSamples[i] ELSE samples[i]]

scatterLocal(indexes, localSamples, samples) ==
    [i \in 1..Len(samples) |->
        IF \E k \in 1..Len(indexes) : indexes[k] = i
        THEN localSamples[CHOOSE k \in 1..Len(indexes) : indexes[k] = i]
        ELSE samples[i]]

\* What Samples returns: [isNil, val, err], isNil: the slice is nil.
setSamplesFailedPartial(samples, err) == [isNil |-> FALSE, val |-> samples, err |-> err]

setSamplesFailed(samples, err) == [isNil |-> TRUE, val |-> <<>>, err |-> err]

setSamplesDone(samples) == [isNil |-> FALSE, val |-> samples, err |-> NoErr]

\* tile.Samples(group.coords) on the decoder of handle tile.  The set's
\* rasters have one tile each, so the decoder's loop has one order.
tileSamplesOf(t, coords) ==
    Samples(t, coords, CHOOSE order \in SamplesOrders(t, coords) : TRUE)

\* One record of the log of a call: the tile coordinate looked up,
\* whether it was marked missing before, and what the lookup did.
lookupLogged(s, tileCoord, g) ==
    [tc |-> tileCoord, wasMissing |-> tileCoord \in s.missingTiles,
     probed |-> g.probed, touched |-> g.touched, isNil |-> g.isNil, err |-> g.err,
     sampled |-> 0]

\* The log once tile.Samples was called on the tile of its last record.
sampleLogged(log) == [log EXCEPT ![Len(log)].sampled = @ + 1]

\* Samples run without interruption over the groups in `order`;
\* acc = [samples, log].  The result: [s, ret, log].
\* sampled: tile.Samples has returned r and the decoder is let go of.
tileSampled(s, tile, r) == unpinTile([s EXCEPT !.heap[tile].t = r.t], tile)

RECURSIVE setSamplesLoop(_, _, _, _, _)
setSamplesSampled(s, coords, order, k, acc, tile, r) ==
    IF r.err # NoErr
    THEN [s |-> tileSampled(s, tile, r),
          ret |-> setSamplesFailed(acc.samples, r.err), log |-> sampleLogged(acc.log)]
    ELSE setSamplesLoop(tileSampled(s, tile, r), coords, order, k + 1,
             [samples |-> scatterLocal(groupIndexes(coords, order[k]), r.val, acc.samples),
              log |-> sampleLogged(acc.log)])

setSamplesRound(coords, order, k, acc, g) ==
    IF g.err # NoErr
    THEN [s |-> g.s, ret |-> setSamplesFailed(acc.samples, g.err), log |-> acc.log]
    ELSE IF g.isNil
    THEN setSamplesLoop(g.s, coords, order, k + 1,
             [samples |-> scatterNaN(groupIndexes(coords, order[k]), acc.samples),
              log |-> acc.log])
    ELSE setSamplesSampled(g.s, coords, order, k, acc, g.tile,
             tileSamplesOf(g.s.heap[g.tile].t, groupCoords(coords, order[k])))

setSamplesLogged(s, coords, order, k, acc, g) ==
    setSamplesRound(coords, order, k,
        [samples |-> acc.samples, log |-> Append(acc.log, lookupLogged(s, order[k], g))], g)

setSamplesLoop(s, coords, order, k, acc) ==
    IF k > Len(order)
    THEN [s |-> s, ret |-> setSamplesDone(acc.samples), log |-> acc.log]
    ELSE setSamplesLogged(s, coords, order, k, acc, getTileCached(s, order[k]))

SetSamples(s, coords, order) ==
    setSamplesLoop(s, coords, order, 1, [samples |-> setSamplesInitial(coords), log |-> <<>>])

\* The orders in which the range over groupsByTileCoord can run.
SetSamplesOrders(coords) == Perms(groupTileCoords(coords))

\* The coordinates given to the set: without coverage, two in the first
\* raster, one in each other file's square.
SetCoords ==
    {Coord(-1, 0), Coord(0, 0), Coord(1, 0)} \cup {Coord(c * CellSize, 0) : c \in 1..4}

\* The batches given to the set by a single caller: every batch up to
\* MaxSetBatch coordinates, and the batches of three that return to the
\* first coordinate's file after another one.
SetBatches ==
    SeqsUpTo(SetCoords, MaxSetBatch)
    \cup {b \in SetCoords \X SetCoords \X SetCoords : tileCoordFunc(b[3]) = tileCoordFunc(b[1])}

\* ------------------------------------------------------------------------
\* InterpolateBilinear.  A float64 coordinate is counted in halves, as the
\* float tags are: a query coordinate c stands for the float64 c/2.  An
\* interpolated value is a record [isNaN, num]: NaN, or the float64
\* num / (4 * scaleX * scaleY), the weights dx and dy being kept as
\* numerators over 2 * scaleX and 2 * scaleY.
\* A raster is a record [kind, scaleX, scaleY, samples, holes]:
\*   "test"     the testRaster of the tests, samples its grid
\*   "sparse"   a raster over the whole lattice whose sample at column c,
\*              row r is c + 2r, NaN at the lattice points of holes
\*   "failing"  a raster whose Samples returns an error

\* The longest batch given to InterpolateBilinear.
MaxQueries == 2

TestRaster ==
    [kind |-> "test", scaleX |-> 10, scaleY |-> 10,
     samples |-> <<<<0, 1, 2>>, <<2, 3, 4>>, <<4, 5, 6>>>>, holes |-> {}]

SparseRaster ==
    [kind |-> "sparse", scaleX |-> 10, scaleY |-> 10,
     samples |-> <<>>, holes |-> {<<2, 2>>}]

FailingRaster ==
    [kind |-> "failing", scaleX |-> 10, scaleY |-> 10, samples |-> <<>>, holes |-> {}]

Rasters == {TestRaster, SparseRaster, FailingRaster}

\* testRaster.Samples: samples[Y/scaleY][X/scaleX], which panics outside
\* the grid.
testRasterInGrid(raster, coord) ==
    /\ GoDiv(coord.Y, raster.scaleY) \in 0..(Len(raster.samples) - 1)
    /\ GoDiv(coord.X, raster.scaleX) \in 0..(Len(raster.samples[1]) - 1)

testRasterSample(raster, coord) ==
    raster.samples[GoDiv(coord.Y, raster.scaleY) + 1][GoDiv(coord.X, raster.scaleX) + 1]

sparseRasterSample(raster, coord) ==
    IF <<GoDiv(coord.X, raster.scaleX), GoDiv(coord.Y, raster.scaleY)>> \in raster.holes
    THEN NaN
    ELSE GoDiv(coord.X, raster.scaleX) + 2 * GoDiv(coord.Y, raster.scaleY)

\* raster.Samples(rasterCoords): [val, err].
rasterSamples(raster, rasterCoords) ==
    IF raster.kind = "failing" THEN [val |-> Nil, err |-> "raster error"]
    ELSE IF raster.kind = "test"
    THEN IF \E k \in 1..Len(rasterCoords) : ~testRasterInGrid(raster, rasterCoords[k])
         THEN [val |-> Nil, err |-> "panic: index out of range"]
         ELSE [val |-> [k \in 1..Len(rasterCoords) |-> testRasterSample(raster, rasterCoords[k])],
               err |-> NoErr]
    ELSE [val |-> [k \in 1..Len(rasterCoords) |-> sparseRasterSample(raster, rasterCoords[k])],
          err |-> NoErr]

\* scale * (int(c) / scale): the lower corner along one axis.
interpLower(scale, c) == scale * GoDiv(FloatToInt(c), scale)

\* The four corners of one query, in the order they are written to
\* rasterCoords.
interpCorners(raster, coord) ==
    <<Coord(interpLower(raster.scaleX, coord[1]), interpLower(raster.scaleY, coord[2])),
      Coord(interpLower(raster.scaleX, coord[1]) + raster.scaleX,
            interpLower(raster.scaleY, coord[2])),
      Coord(interpLower(raster.scaleX, coord[1]),
            interpLower(raster.scaleY, coord[2]) + raster.scaleY),
      Coord(interpLower(raster.scaleX, coord[1]) + raster.scaleX,
            interpLower(raster.scaleY, coord[2]) + raster.scaleY)>>

\* The first loop: rasterCoords.
interpRasterCoords(raster, coords) ==
    [k \in 1..(4 * Len(coords)) |->
        interpCorners(raster, coords[((k - 1) \div 4) + 1])[((k - 1) % 4) + 1]]

\* dx (dy), as a numerator over 2 * scale.
interpWeight(scale, c) == c - 2 * interpLower(scale, c)

\* sample * wx * wy in float64: NaN for a NaN sample whatever the weights.
interpTermSkipZero(sample, wx, wy) ==
    IF wx * wy = 0 THEN [isNaN |-> FALSE, num |-> 0]
    ELSE IF sample = NaN THEN [isNaN |-> TRUE, num |-> 0]
    ELSE [isNaN |-> FALSE, num |-> sample * wx * wy]

interpTerm(sample, wx, wy) ==
    IF sample = NaN THEN [isNaN |-> TRUE, num |-> 0]
    ELSE [isNaN |-> FALSE, num |-> sample * wx * wy]

\* The float64 sum of the four terms.
interpSum(terms) ==
    IF \E k \in 1..4 : terms[k].isNaN THEN [isNaN |-> TRUE, num |-> 0]
    ELSE [isNaN |-> FALSE, num |-> terms[1].num + terms[2].num + terms[3].num + terms[4].num]

\* result[i], from the weights and the query's four samples.
interpWeightedSwapped(dx, dy, oneX, oneY, s4) ==
    interpSum(<<interpTerm(s4[1], oneX - dx, oneY - dy),
                interpTerm(s4[3], dx, oneY - dy),
                interpTerm(s4[2], oneX - dx, dy),
                interpTerm(s4[4], dx, dy)>>)

interpWeighted(dx, dy, oneX, oneY, s4) ==
    interpSum(<<interpTerm(s4[1], oneX - dx, oneY - dy),
                interpTerm(s4[2], dx, oneY - dy),
                interpTerm(s4[3], oneX - dx, dy),
                interpTerm(s4[4], dx, dy)>>)

interpResult(raster, coord, s4) ==
    interpWeighted(interpWeight(raster.scaleX, coord[1]), interpWeight(raster.scaleY, coord[2]),
                   2 * raster.scaleX, 2 * raster.scaleY, s4)

\* The end of InterpolateBilinear, r what raster.Samples returned.
interpolated(raster, coords, rasterCoords, r) ==
    IF r.err # NoErr
    THEN [rasterCoords |-> rasterCoords, isNil |-> TRUE, val |-> <<>>, err |-> r.err]
    ELSE [rasterCoords |-> rasterCoords, isNil |-> FALSE,
          val |-> [i \in 1..Len(coords) |->
                      interpResult(raster, coords[i], SubSeq(r.val, 4 * i - 3, 4 * i))],
          err |-> NoErr]

interpolateOver(raster, coords, rasterCoords) ==
    interpolated(raster, coords, rasterCoords, rasterSamples(raster, rasterCoords))

InterpolateBilinear(raster, coords) ==
    interpolateOver(raster, coords, interpRasterCoords(raster, coords))

\* The query coordinates, in halves: -5, -0.5, 0, 10 and -5, 0, 2.5, 10.
QueryCoords == {<<x, y>> : x \in {-10, -1, 0, 20}, y \in {-10, 0, 5, 20}}

\* The queries of TestInterpolateBilinear and what it expects, the values
\* as numerators over 4 * 10 * 10.
TestQueries ==
    <<<<0, 0>>, <<20, 0>>, <<0, 20>>, <<20, 20>>, <<10, 10>>,
      <<10, 0>>, <<0, 10>>, <<20, 10>>, <<10, 20>>>>

TestExpected == <<0, 400, 800, 1200, 600, 200, 400, 800, 1000>>

QueryBatches == SeqsUpTo(QueryCoords, MaxQueries) \cup {TestQueries}

\* ------------------------------------------------------------------------
\* State.
\*   f        the GeoTIFFTile a caller holds directly (TestNewGeoTIFFTile)
\*   last     the last call on f: [op, coords, order, pre, val, err,
\*            fetched, reads], pre the decoder before the call
\*   s        the GeoTIFFTileSet
\*   lastSet  the last uninterrupted call on s: [op, coords, order, pre,
\*            ret, log], pre the tile set before the call
\*   callers  the goroutines calling s.Samples concurrently, each a record
\*            [pc, coords, samples, todo, cur, tile, seen, ret]: where it
\*            stands, its batch, its samples so far, the groups not yet
\*            visited, the group it is at, the decoder it holds, what
\*            another goroutine's getTile for cur produced while this one
\*            was inside getTileCached(cur), and what Samples returned
\*   call     the last call of a function that has no state of its own:
\*            [op, ...], the arguments and what it returned
\* ------------------------------------------------------------------------
\* ParseGeoKeys.  directory is a sequence of uint16; doubleParams a
\* sequence of float64; asciiParams a byte slice [data, spare]: its bytes
\* and the bytes of its backing array between its length and its capacity.
\* A map is a function from its keys.  The result is [isNil, parsed, err],
\* err a "panic: ..." text when the call panics instead of returning.

errParse == "parse error"

GeoDoubleParamsTag == 34736
GeoASCIIParamsTag == 34737
GeoKeyGTModelType == 1024
GeoKeyGTCitation == 1026

\* The longest key directory, in keys.
MaxKeys == 2

\* m[key] = value.
mapPut(m, key, value) ==
    [k \in DOMAIN m \cup {key} |-> IF k = key THEN value ELSE m[k]]

\* make(map...) for the three maps of ParsedGeoKeys.
EmptyParsedGeoKeys == [Params |-> <<>>, DoubleParams |-> <<>>, ASCIIParams |-> <<>>]

\* The slice expression taking every byte from index on.
asciiSliceToEnd(asciiParams, index, numberOfValues) ==
    SubSeq(asciiParams.data \o asciiParams.spare, index + 1, Len(asciiParams.data))

\* asciiParams[index : index+numberOfValues] within the capacity.
asciiSlice(asciiParams, index, numberOfValues) ==
    SubSeq(asciiParams.data \o asciiParams.spare, index + 1, index + numberOfValues)

\* One iteration of the loop over the keys: [done, parsed, err]; done when
\* the function returns or panics in this iteration.
geoKeyFiled(parsed, keyValues, doubleParams, asciiParams) ==
    LET key == keyValues[1]
        tiffTagLocation == keyValues[2]
        numberOfValues == keyValues[3]
        stop(e) == [done |-> TRUE, parsed |-> parsed, err |-> e]
        goOn(p) == [done |-> FALSE, parsed |-> p, err |-> NoErr]
    IN
    CASE tiffTagLocation = 0 ->
            IF numberOfValues # 1 THEN stop(errParse)
            ELSE goOn([parsed EXCEPT !.Params = mapPut(@, key, keyValues[4])])
      [] tiffTagLocation = GeoDoubleParamsTag ->
            IF numberOfValues # 1 THEN stop("unsupported")
            ELSE IF keyValues[4] >= Len(doubleParams) THEN stop("panic: index out of range")
            ELSE goOn([parsed EXCEPT
                          !.DoubleParams = mapPut(@, key, doubleParams[keyValues[4] + 1])])
      [] tiffTagLocation = GeoASCIIParamsTag ->
            IF keyValues[4] + numberOfValues > Len(asciiParams.data) + Len(asciiParams.spare)
            THEN stop("panic: slice bounds out of range")
            ELSE goOn([parsed EXCEPT
                          !.ASCIIParams = mapPut(@, key,
                              asciiSlice(asciiParams, keyValues[4], numberOfValues))])
      [] OTHER -> stop("unsupported")

\* The loop from key i (counted from 0) on.
RECURSIVE parseGeoKeysFrom(_, _, _, _, _)
geoKeysNext(directory, doubleParams, asciiParams, i, r) ==
    IF r.done THEN [isNil |-> TRUE, parsed |-> EmptyParsedGeoKeys, err |-> r.err]
    ELSE parseGeoKeysFrom(directory, doubleParams, asciiParams, i + 1, r.parsed)

parseGeoKeysFrom(directory, doubleParams, asciiParams, i, parsed) ==
    IF i >= directory[4] THEN [isNil |-> FALSE, parsed |-> parsed, err |-> NoErr]
    ELSE geoKeysNext(directory, doubleParams, asciiParams, i,
             geoKeyFiled(parsed, SubSeq(directory, 4 + 4 * i + 1, 4 + 4 * (i + 1)),
                         doubleParams, asciiParams))

ParseGeoKeys(directory, doubleParams, asciiParams) ==
    LET fail(e) == [isNil |-> TRUE, parsed |-> EmptyParsedGeoKeys, err |-> e] IN
    IF Len(directory) < 4 THEN fail(errParse)
    ELSE IF directory[1] # 1 THEN fail(errParse)
    ELSE IF directory[2] # 1 THEN fail(errParse)
    ELSE IF directory[3] # 0 /\ directory[3] # 1 THEN fail(errParse)
    ELSE IF Len(directory) # 4 + 4 * directory[4] THEN fail(errParse)
    ELSE parseGeoKeysFrom(directory, doubleParams, asciiParams, 0, EmptyParsedGeoKeys)

\* The inputs of ParseGeoKeys.  A key entry: one of two keys, a location
\* (0, an unknown one, the two tags), 0 to 2 values, value or offset 0 or 3.
GeoKeyEntries ==
    {<<key, location, n, v>> :
        key \in {GeoKeyGTModelType, GeoKeyGTCitation},
        location \in {0, 1, GeoDoubleParamsTag, GeoASCIIParamsTag},
        n \in 0..2, v \in {0, 3}}

\* The entries of a directory one after the other.
geoKeyWords(entries) ==
    [i \in 1..(4 * Len(entries)) |-> entries[((i - 1) \div 4) + 1][((i - 1) % 4) + 1]]

\* Directories with a header of any kind over at most one key, headers
\* cut short and directories one word too long.
GeoHeaderDirectories ==
    {<<version, revision, minor, n>> \o geoKeyWords(entries) :
        version \in {1, 2}, revision \in {0, 1}, minor \in {0, 1, 2}, n \in 0..(MaxKeys + 1),
        entries \in SeqsUpTo(GeoKeyEntries, 1)}
    \cup SeqsUpTo({1}, 3)
    \cup {<<1, 1, 0, 1>> \o geoKeyWords(<<entry>>) \o <<0>> : entry \in GeoKeyEntries}

\* The directory of the valid header and the given entries.
GeoDirectory(entries) == <<1, 1, 0, Len(entries)>> \o geoKeyWords(entries)

GeoDoubleParams == <<52, 10>>

\* "ab|" with its capacity equal to its length, and with one more byte.
GeoASCIIParams ==
    {[data |-> <<"a", "b", "|">>, spare |-> <<>>],
     [data |-> <<"a", "b", "|">>, spare |-> <<"z">>]}

VARIABLES f, last, s, lastSet, callers, call

vars == <<f, last, s, lastSet, callers, call>>

NoPureCall == [op |-> "none"]

NoCall ==
    [op |-> "none", coords |-> <<>>, order |-> <<>>, pre |-> ZeroTile,
     val |-> <<>>, err |-> NoErr, fetched |-> <<>>, reads |-> <<>>]

NoSetCall ==
    [op |-> "none", coords |-> <<>>, order |-> <<>>, pre |-> NewGeoTIFFTileSet,
     ret |-> setSamplesDone(<<>>), log |-> <<>>]

NoSeen == [kind |-> "none", tile |-> NoHandle]

Idle ==
    [pc |-> "idle", coords |-> <<>>, samples |-> <<>>, todo |-> {},
     cur |-> TileCoord(0, 0), tile |-> NoHandle, seen |-> NoSeen,
     ret |-> setSamplesDone(<<>>)]

\* One decoder, opened on one of DecoderFiles; the tile set unused.
InitTile ==
    /\ f \in {NewGeoTIFFTile(file, DecoderCacheBytes).tile : file \in DecoderFiles}
    /\ last = NoCall
    /\ s = NewGeoTIFFTileSet
    /\ lastSet = NoSetCall
    /\ callers = [p \in Procs |-> Idle]
    /\ call = NoPureCall

\* A new tile set; no decoder held directly.
InitSet ==
    /\ f = ZeroTile
    /\ last = NoCall
    /\ s = NewGeoTIFFTileSet
    /\ lastSet = NoSetCall
    /\ callers = [p \in Procs |-> Idle]
    /\ call = NoPureCall

\* A call on f returns r: the decoder and the record of the call.
tileCallReturns(op, coords, order, r) ==
    /\ f' = r.t
    /\ last' = [op |-> op, coords |-> coords, order |-> order, pre |-> f,
                val |-> r.val, err |-> r.err, fetched |-> r.fetched, reads |-> r.reads]
    /\ UNCHANGED <<s, lastSet, callers, call>>

\* f.Sample(coord), called when the previous call's result has been taken.
SampleCall ==
    /\ last.op = "none"
    /\ \E coord \in SampleCoords(f) :
        tileCallReturns("Sample", <<coord>>, <<>>, Sample(f, coord))

\* f.Samples(coords), called when the previous call's result has been taken.
SamplesCall ==
    /\ last.op = "none"
    /\ \E coords \in SeqsUpTo(BatchCoords(f), MaxBatch) :
        \E order \in SamplesOrders(f, coords) :
            tileCallReturns("Samples", coords, order, Samples(f, coords, order))

\* The caller takes the result of its call.
TakeResult ==
    /\ last.op # "none"
    /\ last' = NoCall
    /\ UNCHANGED <<f, s, lastSet, callers, call>>

NextTile == SampleCall \/ SamplesCall \/ TakeResult

SpecTile == InitTile /\ [][NextTile]_vars

\* One decoder, opened on one of DecoderFiles with one of CacheBudgets.
InitBudget ==
    /\ f \in {NewGeoTIFFTile(file, bytes).tile : file \in DecoderFiles, bytes \in CacheBudgets}
    /\ last = NoCall
    /\ s = NewGeoTIFFTileSet
    /\ lastSet = NoSetCall
    /\ callers = [p \in Procs |-> Idle]
    /\ call = NoPureCall

SpecBudget == InitBudget /\ [][NextTile]_vars

\* s.Samples(coords) by a single caller returns r.
setCallReturns(coords, order, r) ==
    /\ s' = r.s
    /\ lastSet' = [op |-> "Samples", coords |-> coords, order |-> order, pre |-> s,
                   ret |-> r.ret, log |-> r.log]
    /\ UNCHANGED <<f, last, callers, call>>

\* s.Samples(coords) by a single caller, the groups visited in `order`;
\* called while every file of the batch is below the cap on failed opens.
SetSamplesCall ==
    /\ lastSet.op = "none"
    /\ \E coords \in SetBatches :
        /\ \A tc \in groupTileCoords(coords) : s.openErrors[tc] < MaxOpenErrors
        /\ \E order \in SetSamplesOrders(coords) :
            setCallReturns(coords, order, SetSamples(s, coords, order))

\* The caller takes the result of its call.
TakeSetResult ==
    /\ lastSet.op # "none"
    /\ lastSet' = NoSetCall
    /\ UNCHANGED <<f, last, s, callers, call>>

NextSet == SetSamplesCall \/ TakeSetResult

SpecSet == InitSet /\ [][NextSet]_vars

\* A program that holds either one decoder or one tile set and calls it.
InitEither == InitTile \/ InitSet

NextEither == (f # ZeroTile /\ NextTile) \/ (f = ZeroTile /\ NextSet)

SpecEither == InitEither /\ [][NextEither]_vars

\* ------------------------------------------------------------------------
\* The tile set called by the goroutines of Procs at once.  A call of
\* Samples advances in steps: the lookups of getTileCached before the
\* mutex, the acquisition of the mutex with the repeated lookups, getTile,
\* the Add that ends getTileCached, tile.Samples, and the return.

\* The coordinates the concurrent callers ask for, one per file: the two
\* rasters, the one without a file, the one that does not open and the
\* one whose tile data ends early.
ConcCoords == {Coord(c * CellSize, 0) : c \in 0..4}

ConcBatches == {<<coord>> : coord \in ConcCoords}

\* The callers inside a call of Samples whose batch has a coordinate of
\* tileCoord.
inFlight(tileCoord) ==
    {p \in Procs : /\ callers[p].pc \notin {"idle", "returned"}
                   /\ tileCoord \in groupTileCoords(callers[p].coords)}

\* Caller p becomes c and the tile set t.
callerMoves(p, c, t) ==
    /\ callers' = [callers EXCEPT ![p] = c]
    /\ s' = t
    /\ UNCHANGED <<f, last, lastSet, call>>

\* Caller p becomes c, the tile set t, after p's getTile for tileCoord
\* produced `seen`: the callers waiting for the mutex inside
\* getTileCached(tileCoord) are the ones that missed it concurrently.
callerOpens(p, c, t, tileCoord, seen) ==
    /\ callers' = [q \in Procs |->
                      IF q = p THEN c
                      ELSE IF callers[q].pc = "lock" /\ callers[q].cur = tileCoord
                      THEN [callers[q] EXCEPT !.seen = seen]
                      ELSE callers[q]]
    /\ s' = t
    /\ UNCHANGED <<f, last, lastSet, call>>

\* Samples returns ret to the caller.
callerReturned(c, ret) ==
    [Idle EXCEPT !.pc = "returned", !.coords = c.coords, !.ret = ret]

\* The caller after getTileCached(tileCoord) returned g: the error ends
\* Samples, a nil tile fills the group with NaN, a decoder is sampled next.
callerGotTile(c, tileCoord, g) ==
    IF g.err # NoErr THEN callerReturned(c, setSamplesFailed(c.samples, g.err))
    ELSE IF g.isNil
    THEN [c EXCEPT !.pc = "range", !.cur = TileCoord(0, 0), !.seen = NoSeen,
                   !.samples = scatterNaN(groupIndexes(c.coords, tileCoord), @),
                   !.todo = @ \ {tileCoord}]
    ELSE [c EXCEPT !.pc = "sample", !.cur = tileCoord, !.tile = g.tile, !.seen = NoSeen]

\* p calls s.Samples(coords): the grouping loop.
CallSamples(p) ==
    /\ callers[p].pc = "idle"
    /\ \E coords \in ConcBatches :
        /\ \A tc \in groupTileCoords(coords) :
               s.openErrors[tc] + Cardinality(inFlight(tc)) < MaxOpenErrors
        /\ callerMoves(p, [Idle EXCEPT !.pc = "range", !.coords = coords,
                                       !.samples = setSamplesInitial(coords),
                                       !.todo = groupTileCoords(coords)], s)

\* p takes the next group of the range loop and calls getTileCached: the
\* lookups before the mutex.
lookedUp(p, tileCoord, chk) ==
    IF chk.done THEN callerMoves(p, callerGotTile(callers[p], tileCoord, chk.r), chk.r.s)
    ELSE callerMoves(p, [callers[p] EXCEPT !.pc = "lock", !.cur = tileCoord], s)

Lookup(p) ==
    /\ callers[p].pc = "range"
    /\ \E tileCoord \in callers[p].todo : lookedUp(p, tileCoord, lookupTile(s, tileCoord))

\* p acquires s.mutex and repeats the lookups; the deferred Unlock runs
\* when they answer.
locked(p, chk) ==
    IF chk.done THEN callerMoves(p, callerGotTile(callers[p], callers[p].cur, chk.r), chk.r.s)
    ELSE callerMoves(p, [callers[p] EXCEPT !.pc = "open"], [s EXCEPT !.mutex = p])

Lock(p) ==
    /\ callers[p].pc = "lock"
    /\ s.mutex = ""
    /\ locked(p, recheckTile(s, callers[p].cur))

\* p, holding the mutex, calls getTile: an error ends getTileCached, the
\* tile (a decoder, or nil when the file does not exist) is added next.
opened(p, g) ==
    IF g.err # NoErr
    THEN callerOpens(p, callerGotTile(callers[p], callers[p].cur, g),
                     [g.s EXCEPT !.mutex = ""], callers[p].cur,
                     [kind |-> "error", tile |-> NoHandle])
    ELSE IF g.isNil
    THEN callerOpens(p, [callers[p] EXCEPT !.pc = "add", !.tile = NoHandle, !.seen = NoSeen],
                     g.s, callers[p].cur, [kind |-> "missing", tile |-> NoHandle])
    ELSE callerOpens(p, [callers[p] EXCEPT !.pc = "add", !.tile = g.tile, !.seen = NoSeen],
                     g.s, callers[p].cur, [kind |-> "tile", tile |-> g.tile])

Open(p) ==
    /\ callers[p].pc = "open"
    /\ opened(p, getTile(s, callers[p].cur))

\* getTileCached returning from the Add without the deferred Unlock.
addedKeepsMutex(p, g) ==
    callerMoves(p, callerGotTile(callers[p], callers[p].cur, g), g.s)

\* p adds the tile to the cache, which closes the decoder it evicts, and
\* getTileCached returns, releasing the mutex.
added(p, g) ==
    callerMoves(p, callerGotTile(callers[p], callers[p].cur, g), [g.s EXCEPT !.mutex = ""])

Add(p) ==
    /\ callers[p].pc = "add"
    /\ added(p, tileStored(callers[p].cur,
                    IF callers[p].tile = NoHandle THEN tileIsNil(s, NoErr, TRUE, TRUE)
                    ELSE tileIs(s, callers[p].tile, TRUE)))

\* p calls tile.Samples on the decoder it holds and writes the group's
\* values; an error ends Samples.
sampled(p, r) ==
    IF r.err # NoErr
    THEN callerMoves(p, callerReturned(callers[p], setSamplesFailed(callers[p].samples, r.err)),
                     tileSampled(s, callers[p].tile, r))
    ELSE callerMoves(p,
             [callers[p] EXCEPT
                 !.pc = "range", !.cur = TileCoord(0, 0), !.tile = NoHandle,
                 !.samples = scatterLocal(groupIndexes(callers[p].coords, callers[p].cur),
                                          r.val, @),
                 !.todo = @ \ {callers[p].cur}],
             tileSampled(s, callers[p].tile, r))

TileSamples(p) ==
    /\ callers[p].pc = "sample"
    /\ sampled(p, tileSamplesOf(s.heap[callers[p].tile].t,
                                groupCoords(callers[p].coords, callers[p].cur)))

\* The range loop is over: Samples returns the samples.
Return(p) ==
    /\ callers[p].pc = "range"
    /\ callers[p].todo = {}
    /\ callerMoves(p, callerReturned(callers[p], setSamplesDone(callers[p].samples)), s)

\* The caller takes what Samples returned.
TakeReturn(p) ==
    /\ callers[p].pc = "returned"
    /\ callerMoves(p, Idle, s)

\* A new tile set and its callers; no decoder held directly.
Init == InitSet

Next ==
    \E p \in Procs :
        \/ CallSamples(p)
        \/ Lookup(p)
        \/ Lock(p)
        \/ Open(p)
        \/ Add(p)
        \/ TileSamples(p)
        \/ Return(p)
        \/ TakeReturn(p)

Spec == Init /\ [][Next]_vars

\* ------------------------------------------------------------------------
\* Calls of the functions without state.

\* The function called with `in` returned `out`.
pureCallReturns(op, in, out) ==
    /\ call' = [op |-> op, in |-> in, out |-> out]
    /\ UNCHANGED <<f, last, s, lastSet, callers>>

\* The caller takes the result.
TakeCall ==
    /\ call.op # "none"
    /\ call' = NoPureCall
    /\ UNCHANGED <<f, last, s, lastSet, callers>>

\* InterpolateBilinear(raster, coords).
InterpolateCall ==
    /\ call.op = "none"
    /\ \E raster \in Rasters, coords \in QueryBatches :
        pureCallReturns("InterpolateBilinear", [raster |-> raster, coords |-> coords],
                        InterpolateBilinear(raster, coords))

\* NewGeoTIFFTile(fsys, filename, WithTileCacheSize(DecoderCacheBytes)).
NewGeoTIFFTileCall ==
    /\ call.op = "none"
    /\ \E g \in OpenGeometries, nOffsets \in 0..MaxTableLen, nCounts \in 0..MaxTableLen,
          d \in Deviations, os \in BOOLEAN :
        pureCallReturns("NewGeoTIFFTile", [file |-> OpenInput(g, nOffsets, nCounts, d, os)],
                        NewGeoTIFFTile(OpenInput(g, nOffsets, nCounts, d, os),
                                       DecoderCacheBytes))

NextOpen == NewGeoTIFFTileCall \/ TakeCall

SpecOpen == InitSet /\ [][NextOpen]_vars

\* ParseGeoKeys(directory, doubleParams, asciiParams) returns.
geoKeysParsed(directory, asciiParams) ==
    pureCallReturns("ParseGeoKeys",
        [directory |-> directory, doubleParams |-> GeoDoubleParams,
         asciiParams |-> asciiParams],
        ParseGeoKeys(directory, GeoDoubleParams, asciiParams))

\* ParseGeoKeys on a directory of any header, or on a directory of the
\* valid header with up to MaxKeys keys.
ParseGeoKeysCall ==
    /\ call.op = "none"
    /\ \E asciiParams \in GeoASCIIParams :
        \/ \E directory \in GeoHeaderDirectories : geoKeysParsed(directory, asciiParams)
        \/ \E n \in 0..MaxKeys : \E entries \in [1..n -> GeoKeyEntries] :
               geoKeysParsed(GeoDirectory(entries), asciiParams)

NextGeoKeys == ParseGeoKeysCall \/ TakeCall

SpecGeoKeys == InitSet /\ [][NextGeoKeys]_vars

NextInterp == InterpolateCall \/ TakeCall

SpecInterp == InitSet /\ [][NextInterp]_vars

\* ------------------------------------------------------------------------
\* Claims about the decoder (under SpecTile).

\* C1: in every decoder state reached by earlier Sample/Samples calls and
\* for every batch, Samples(coords) returns one value per coordinate and
\* its i-th value is what Sample(coords[i]) returns in that state (NaN
\* being NaN), whatever order the tiles of the batch are visited in; and
\* Samples fails only when Sample fails for one of the coordinates.
C1_SamplesEqualsSample ==
    last.op = "Samples" =>
        LET each == [i \in 1..Len(last.coords) |-> Sample(last.pre, last.coords[i])] IN
        IF last.err = NoErr
        THEN /\ Len(last.val) = Len(last.coords)
             /\ \A i \in 1..Len(last.coords) :
                    each[i].err = NoErr /\ last.val[i] = each[i].val[1]
        ELSE \E i \in 1..Len(last.coords) : each[i].err # NoErr

\* C1's case: a batch over two tiles, answered with a sample and a NaN, by
\* a decoder that had learned the empty-tile bytes, knew an empty tile and
\* held a decoded tile.
C1_Witness ==
    /\ last.op = "Samples" /\ last.err = NoErr
    /\ Len(last.coords) = MaxBatch /\ Len(last.fetched) = 2
    /\ ~last.pre.emptyTileBytes.isNil
    /\ last.pre.emptyTiles # {} /\ last.pre.tileCache # <<>>
    /\ \E i \in 1..Len(last.val) : last.val[i] = NaN
    /\ \E i \in 1..Len(last.val) : last.val[i] # NaN

\* The raster's extent: from the origin east to imageWidth*scaleX and
\* south to imageLength*scaleY, the far edges excluded.
OutsideExtent(t, coord) ==
    \/ coord.X < t.translateX
    \/ coord.X >= t.translateX + t.imageWidth * t.scaleX
    \/ coord.Y > t.translateY
    \/ coord.Y <= t.translateY - t.imageLength * t.scaleY

\* C10: for every native coordinate outside the raster's extent, Sample
\* returns NaN and no error and fetches no tile.
C10_OutsideExtentIsNaN ==
    (last.op = "Sample" /\ OutsideExtent(last.pre, last.coords[1])) =>
        (last.val = <<NaN>> /\ last.err = NoErr /\ last.fetched = <<>>)

\* ------------------------------------------------------------------------
\* Claims about the tile set called by one caller at a time (under SpecSet).

\* What the files hold for a coordinate: NaN without coverage, without a
\* file and at a no-data pixel, the pixel's value otherwise.
FileElevation(coord) ==
    LET p == tileCoordFunc(coord)
        file == SetFS(tileFilenameFunc(p.tc))
    IN IF ~p.ok \/ ~file.exists THEN NaN
       ELSE LET w == file.disk[1][coord.X - p.tc.C * CellSize + 1] IN
            IF w = noDataBits THEN NaN ELSE w

\* C2: when GeoTIFFTileSet.Samples succeeds it returns one value per
\* coordinate, and the value at index i is the elevation the files hold for
\* coords[i], however the coordinates of different files are interleaved,
\* in whatever order the groups are visited and whatever the caches hold.
C2_SamplesInInputOrder ==
    (lastSet.op = "Samples" /\ lastSet.ret.err = NoErr) =>
        /\ ~lastSet.ret.isNil
        /\ Len(lastSet.ret.val) = Len(lastSet.coords)
        /\ \A i \in 1..Len(lastSet.coords) :
               lastSet.ret.val[i] = FileElevation(lastSet.coords[i])

\* C2's case: a batch of three that goes to one file, to another and back
\* to the first, answered with three different values, the second
\* coordinate's group visited first, a decoder already cached.
C2_Witness ==
    /\ lastSet.op = "Samples" /\ lastSet.ret.err = NoErr
    /\ Len(lastSet.coords) = 3
    /\ tileCoordFunc(lastSet.coords[1]) = tileCoordFunc(lastSet.coords[3])
    /\ tileCoordFunc(lastSet.coords[1]) # tileCoordFunc(lastSet.coords[2])
    /\ lastSet.order[1] = tileCoordFunc(lastSet.coords[2]).tc
    /\ Cardinality({lastSet.ret.val[i] : i \in 1..3}) = 3
    /\ lastSet.pre.geoTIFFTileCache # <<>>

\* The file of the tile coordinate does not exist.
MissingFile(tileCoord) == ~SetFS(tileFilenameFunc(tileCoord)).exists

\* A caller that asks for the squares without a file and for the first
\* raster.
MissingCoords ==
    {Coord(0, 0)} \cup {Coord(tc.C * CellSize, 0) : tc \in {t \in SetTileCoords : MissingFile(t)}}

MissingBatches == SeqsUpTo(MissingCoords, MaxSetBatch)

SetSamplesMissingCall ==
    /\ lastSet.op = "none"
    /\ \E coords \in MissingBatches :
        /\ \A tc \in groupTileCoords(coords) : s.openErrors[tc] < MaxOpenErrors
        /\ \E order \in SetSamplesOrders(coords) :
            setCallReturns(coords, order, SetSamples(s, coords, order))

NextMissing == SetSamplesMissingCall \/ TakeSetResult

SpecMissing == InitSet /\ [][NextMissing]_vars

\* C5: a lookup of a tile whose file does not exist yields no tile and no
\* error and leaves the tile marked missing, and the group's coordinates
\* get NaN; the file is probed once ever; a lookup of a tile already marked
\* missing neither probes the file nor uses the cache of decoders.
C5_NegativeCaching ==
    /\ \A tc \in SetTileCoords : MissingFile(tc) => s.openErrors[tc] <= 1
    /\ lastSet.op = "Samples" =>
        \A k \in 1..Len(lastSet.log) :
            MissingFile(lastSet.log[k].tc) =>
                /\ lastSet.log[k].isNil /\ lastSet.log[k].err = NoErr
                /\ lastSet.log[k].tc \in s.missingTiles
                /\ lastSet.log[k].wasMissing =>
                       ~lastSet.log[k].probed /\ ~lastSet.log[k].touched
                /\ lastSet.ret.err = NoErr =>
                       \A i \in 1..Len(lastSet.coords) :
                           (tileCoordFunc(lastSet.coords[i]).ok
                            /\ tileCoordFunc(lastSet.coords[i]).tc = lastSet.log[k].tc)
                               => lastSet.ret.val[i] = NaN

OpenError(tileCoord) ==
    NewGeoTIFFTile(SetFS(tileFilenameFunc(tileCoord)), SetTileCacheBytes).err

FailsToOpen(tileCoord) == OpenError(tileCoord) \notin {NoErr, "fs.ErrNotExist"}

\* C9: only a file that does not exist is marked missing; a file that
\* fails to open in another way is never marked missing nor cached, every
\* lookup of it opens it again, and its error ends the batch: Samples
\* returns the error and no values.
C9_OnlyNotExistIsMissing ==
    /\ \A tc \in s.missingTiles : MissingFile(tc)
    /\ \A i \in 1..Len(s.geoTIFFTileCache) : ~FailsToOpen(s.geoTIFFTileCache[i].key)
    /\ lastSet.op = "Samples" =>
        \A k \in 1..Len(lastSet.log) :
            FailsToOpen(lastSet.log[k].tc) =>
                /\ lastSet.log[k].probed
                /\ lastSet.log[k].err = OpenError(lastSet.log[k].tc)
                /\ k = Len(lastSet.log)
                /\ lastSet.ret.isNil /\ lastSet.ret.err = lastSet.log[k].err

\* C9's case: a file fails to open for the second time, after another
\* group of the batch was answered.
C9_Witness ==
    /\ lastSet.op = "Samples"
    /\ Len(lastSet.log) = 2
    /\ FailsToOpen(lastSet.log[2].tc)
    /\ lastSet.pre.openErrors[lastSet.log[2].tc] = 1

\* ------------------------------------------------------------------------
\* Claims about the tile set called concurrently (under Spec).

\* The decoders whose file is open, of one tile coordinate and of all.
OpenDecoders(tileCoord) ==
    {h \in DOMAIN s.heap : h.tc = tileCoord /\ ~s.heap[h].t.closed}

OpenFiles == {h \in DOMAIN s.heap : ~s.heap[h].t.closed}

\* The decoder is in the cache of decoders.
Cached(h) ==
    \E i \in 1..Len(s.geoTIFFTileCache) : s.geoTIFFTileCache[i].value = h

\* C3: a decoder that a call of Samples got from getTileCached and has not
\* yet finished sampling is never closed: no caller about to run
\* tile.Samples holds a closed decoder.
C3_NoCloseWhileInUse ==
    \A p \in Procs :
        callers[p].pc = "sample" => ~s.heap[callers[p].tile].t.closed

C7_EvictedClosedOnce ==
    \A h \in DOMAIN s.heap :
        /\ s.heap[h].closes <= 1
        /\ s.heap[h].t.closed <=> s.heap[h].closes = 1
        /\ Cached(h) => s.heap[h].closes = 0
        /\ (~Cached(h) /\ ~\E p \in Procs : callers[p].pc = "add" /\ callers[p].tile = h)
               => s.heap[h].closes = 1

\* C7's case: a decoder has been evicted and closed while another one is
\* cached.
C7_Witness ==
    /\ s.geoTIFFTileCache # <<>>
    /\ \E h \in DOMAIN s.heap : s.heap[h].closes = 1

\* ------------------------------------------------------------------------
\* More claims about the decoder (under SpecTile).

\* The pixel is inside the image.
InImage(t, lc) == 0 <= lc.X /\ lc.X < t.imageWidth /\ 0 <= lc.Y /\ lc.Y < t.imageLength

\* The words the file holds for a tile, expanded.
DiskTileWords(t, tc) ==
    lzwExpand(t.disk[t.tileOffsets[tc.C + t.tilesAcross * tc.R + 1]], t.tileSampleCount)

\* C11: a successful Sample of a pixel (localX, localY) inside the image
\* fetches the tile (localX div tileWidth, localY div tileLength) and
\* returns the element (localX mod tileWidth) + (localY mod tileLength) *
\* tileWidth of what the file holds for that tile, NaN when that element is
\* the no-data value (as all of them are in an empty tile).
C11_PixelIndexing ==
    (last.op = "Sample" /\ last.err = NoErr
     /\ InImage(last.pre, localCoord(last.pre, last.coords[1]))) =>
        LET t == last.pre
            lc == localCoord(t, last.coords[1])
            tc == TileCoord(lc.X \div t.tileWidth, lc.Y \div t.tileLength)
            w == DiskTileWords(t, tc)[(lc.X % t.tileWidth)
                                      + (lc.Y % t.tileLength) * t.tileWidth + 1]
        IN /\ last.fetched = <<tc>>
           /\ last.val[1] = IF w = noDataBits THEN NaN ELSE w

\* C11's case: a sample that is not NaN, of a pixel in the second row of
\* the second tile.
C11_Witness ==
    /\ last.op = "Sample" /\ last.err = NoErr
    /\ localCoord(last.pre, last.coords[1]) = Coord(2, 1)
    /\ last.val[1] # NaN

\* ------------------------------------------------------------------------
\* Claims about InterpolateBilinear (under SpecInterp).

\* The sample the raster holds at a lattice point.
RasterValue(raster, coord) == rasterSamples(raster, <<coord>>).val[1]

\* The corners InterpolateBilinear sampled for its i-th query.
SampledCorners(i) == SubSeq(call.out.rasterCoords, 4 * i - 3, 4 * i)

\* C12: a successful InterpolateBilinear returns one value per query, in
\* the order of the queries; the corners sampled for a query are
\* (x0,y0), (x1,y0), (x0,y1), (x1,y1) of one lattice cell and, when none of
\* their samples is NaN, the value is s00*(1-dx)*(1-dy) + s10*dx*(1-dy) +
\* s01*(1-dx)*dy + s11*dx*dy with dx = (x-x0)/scaleX, dy = (y-y0)/scaleY;
\* the queries of the test on the test raster give 0, 1, 2, 3, 1.5, 0.5, 1,
\* 2, 2.5.
C12_BilinearWeightedSum ==
    (call.op = "InterpolateBilinear" /\ call.out.err = NoErr) =>
        /\ Len(call.out.val) = Len(call.in.coords)
        /\ \A i \in 1..Len(call.in.coords) :
            LET c == SampledCorners(i)
                sx == call.in.raster.scaleX
                sy == call.in.raster.scaleY
                dx == call.in.coords[i][1] - 2 * c[1].X
                dy == call.in.coords[i][2] - 2 * c[1].Y
                v == [k \in 1..4 |-> RasterValue(call.in.raster, c[k])]
            IN /\ c[2] = Coord(c[1].X + sx, c[1].Y)
               /\ c[3] = Coord(c[1].X, c[1].Y + sy)
               /\ c[4] = Coord(c[1].X + sx, c[1].Y + sy)
               /\ (\A k \in 1..4 : v[k] # NaN) =>
                      /\ ~call.out.val[i].isNaN
                      /\ call.out.val[i].num =
                             v[1] * (2 * sx - dx) * (2 * sy - dy) + v[2] * dx * (2 * sy - dy)
                             + v[3] * (2 * sx - dx) * dy + v[4] * dx * dy
        /\ (call.in.raster = TestRaster /\ call.in.coords = TestQueries) =>
               call.out.val = [i \in 1..Len(TestQueries) |->
                                  [isNaN |-> FALSE, num |-> TestExpected[i]]]

\* C12's case: the queries of the test on the test raster.
C12_Witness ==
    /\ call.op = "InterpolateBilinear" /\ call.out.err = NoErr
    /\ call.in.raster = TestRaster /\ call.in.coords = TestQueries

\* C13: for every query (x, y) the cell sampled has its lower corner at
\* x0 = scaleX * floor(x/scaleX), y0 = scaleY * floor(y/scaleY) and its
\* upper corner one scale further, so that x0 <= x < x1, y0 <= y < y1 and
\* the weights lie in [0, 1).
C13_EnclosingCell ==
    call.op = "InterpolateBilinear" =>
        \A i \in 1..Len(call.in.coords) :
            LET c == SampledCorners(i)
                sx == call.in.raster.scaleX
                sy == call.in.raster.scaleY
                x == call.in.coords[i][1]
                y == call.in.coords[i][2]
            IN /\ c[1].X = sx * (x \div (2 * sx)) /\ c[1].Y = sy * (y \div (2 * sy))
               /\ c[4].X = c[1].X + sx /\ c[4].Y = c[1].Y + sy
               /\ 2 * c[1].X <= x /\ x < 2 * c[4].X
               /\ 2 * c[1].Y <= y /\ y < 2 * c[4].Y
               /\ 0 <= interpWeight(sx, x) /\ interpWeight(sx, x) < 2 * sx
               /\ 0 <= interpWeight(sy, y) /\ interpWeight(sy, y) < 2 * sy

\* C14: a query one of whose four corner samples is NaN gets NaN, whatever
\* the weight of that corner, Samples of a raster with NaN samples makes
\* no error, and every query of a batch gets what it gets when asked alone.
C14_NaNCornerGivesNaN ==
    call.op = "InterpolateBilinear" =>
        /\ call.in.raster = SparseRaster => call.out.err = NoErr
        /\ call.out.err = NoErr =>
            \A i \in 1..Len(call.in.coords) :
                LET c == SampledCorners(i) IN
                /\ (\E k \in 1..4 : RasterValue(call.in.raster, c[k]) = NaN)
                       => call.out.val[i].isNaN
                /\ call.out.val[i] =
                       InterpolateBilinear(call.in.raster, <<call.in.coords[i]>>).val[1]

\* C14's case: of two queries, the first lies on a lattice point, so the
\* NaN at the opposite corner of its cell has weight zero, and gets NaN;
\* the second gets a value.
C14_Witness ==
    /\ call.op = "InterpolateBilinear" /\ call.out.err = NoErr
    /\ call.in.raster = SparseRaster
    /\ Len(call.in.coords) = 2
    /\ call.in.coords[1] = <<20, 20>>
    /\ RasterValue(SparseRaster, SampledCorners(1)[1]) # NaN
    /\ RasterValue(SparseRaster, SampledCorners(1)[4]) = NaN
    /\ call.out.val[1].isNaN
    /\ ~call.out.val[2].isNaN

\* ------------------------------------------------------------------------
\* The coordinates of the batch that tileCoordFunc covers, and their
\* positions in the batch.
CoveredIndexes(coords) ==
    SelectSeq([i \in 1..Len(coords) |-> i], LAMBDA i : tileCoordFunc(coords[i]).ok)

CoveredCoords(coords) ==
    [k \in 1..Len(CoveredIndexes(coords)) |-> coords[CoveredIndexes(coords)[k]]]

\* C15: the coordinates without coverage add nothing to a call of
\* GeoTIFFTileSet.Samples: the tiles looked up, the files opened, the
\* missing-file set, the cache of decoders and the error are those of the
\* call on the covered coordinates alone (none and unchanged when no
\* coordinate is covered); a call that returns values has NaN at the
\* positions without coverage and, at the other positions, the values of
\* the call on the covered coordinates alone.
C15_NoCoverageIsNaN ==
    (lastSet.op = "Samples"
     /\ \E i \in 1..Len(lastSet.coords) : ~tileCoordFunc(lastSet.coords[i]).ok) =>
        LET idx == CoveredIndexes(lastSet.coords)
            alone == SetSamples(lastSet.pre, CoveredCoords(lastSet.coords), lastSet.order)
        IN /\ s = alone.s
           /\ lastSet.log = alone.log
           /\ lastSet.ret.err = alone.ret.err
           /\ \A k \in 1..Len(lastSet.log) :
                  \E j \in 1..Len(idx) : tileCoordFunc(lastSet.coords[idx[j]]).tc = lastSet.log[k].tc
           /\ idx = <<>> =>
                  /\ s = lastSet.pre /\ lastSet.log = <<>> /\ lastSet.ret.err = NoErr
           /\ lastSet.ret.err = NoErr =>
                  /\ \A i \in 1..Len(lastSet.coords) :
                         ~tileCoordFunc(lastSet.coords[i]).ok => lastSet.ret.val[i] = NaN
                  /\ \A j \in 1..Len(idx) : lastSet.ret.val[idx[j]] = alone.ret.val[j]

\* C15's case: a batch whose first coordinate has no coverage and whose
\* second is answered with a value from a file opened by this call, while
\* another decoder is cached.
C15_Witness ==
    /\ lastSet.op = "Samples" /\ lastSet.ret.err = NoErr
    /\ Len(lastSet.coords) = 2
    /\ ~tileCoordFunc(lastSet.coords[1]).ok
    /\ lastSet.ret.val[1] = NaN /\ lastSet.ret.val[2] # NaN
    /\ lastSet.pre.geoTIFFTileCache # <<>>
    /\ Len(lastSet.log) = 1 /\ lastSet.log[1].probed

\* ------------------------------------------------------------------------
\* Claims about NewGeoTIFFTile (under SpecOpen).

\* NewGeoTIFFTile got as far as unmarshalling the file's one directory.
DirectoryRead(file) == file.exists /\ file.parses /\ file.nIFDs = 1

\* The directory departs from the fixed profile in a validated tag.
OutsideProfile(ifd) ==
    \/ ifd.BitsPerSample # 32 \/ ifd.GDALNoData # "-3.4028234663852886e+038"
    \/ ifd.Compression # 5 \/ ifd.PhotometricInterpretation # 1
    \/ ifd.SamplesPerPixel # 1 \/ ifd.PlanarConfiguration # 1
    \/ ifd.Predictor # 1 \/ ifd.SampleFormat # 3
    \/ Len(ifd.ModelPixelScaleTag) # 3 \/ Len(ifd.ModelTiepointTag) # 6
    \/ (Len(ifd.ModelPixelScaleTag) = 3 /\ ifd.ModelPixelScaleTag[3] # 0)
    \/ (Len(ifd.ModelTiepointTag) = 6
        /\ (ifd.ModelTiepointTag[3] # 0 \/ ifd.ModelTiepointTag[6] # 0))

\* C16: NewGeoTIFFTile on a file whose directory has BitsPerSample other
\* than 32, a GDALNoData text other than the fixed one or another tag
\* outside the fixed profile returns the unsupported-format error and no
\* decoder, and the handle it opened is closed when it returns.
C16_UnsupportedProfileClosesFile ==
    (call.op = "NewGeoTIFFTile" /\ DirectoryRead(call.in.file)
     /\ OutsideProfile(call.in.file.ifd)) =>
        /\ ~call.out.ok
        /\ call.out.err = "unsupported"
        /\ ~call.out.leaked

\* ceil(a / b) for b > 0.
CeilDiv(a, b) == CHOOSE n \in 0..a : n * b >= a /\ (n = 0 \/ (n - 1) * b < a)

\* C17: on a directory of the fixed profile NewGeoTIFFTile either returns a
\* decoder or returns an error (it always returns); a decoder has
\* tilesAcross = ceil(imageWidth/tileWidth) and tilesDown =
\* ceil(imageLength/tileLength); when the tile-offset table or the
\* tile-byte-count table is not tilesAcross * tilesDown long it returns an
\* error and no decoder and closes the file.
C17_TileTableChecked ==
    (call.op = "NewGeoTIFFTile" /\ DirectoryRead(call.in.file) /\ call.in.file.osFile
     /\ ~OutsideProfile(call.in.file.ifd)) =>
        LET ifd == call.in.file.ifd IN
        /\ call.out.ok \/ call.out.err \notin
               {NoErr, "panic: integer divide by zero", "panic: index out of range"}
        /\ call.out.ok =>
               /\ call.out.tile.tilesAcross = CeilDiv(ifd.ImageWidth, ifd.TileWidth)
               /\ call.out.tile.tilesDown = CeilDiv(ifd.ImageLength, ifd.TileLength)
        /\ (ifd.TileWidth > 0 /\ ifd.TileLength > 0) =>
               LET n == CeilDiv(ifd.ImageWidth, ifd.TileWidth)
                            * CeilDiv(ifd.ImageLength, ifd.TileLength)
               IN (Len(ifd.TileOffsets) # n \/ Len(ifd.TileByteCounts) # n) =>
                      ~call.out.ok /\ call.out.err # NoErr /\ ~call.out.leaked

\* ------------------------------------------------------------------------
\* The decoder as NewGeoTIFFTile returns it: nothing cached, no empty-tile
\* bytes learned, no tile known empty.
Fresh(t) ==
    [t EXCEPT !.tileCache = <<>>, !.emptyTiles = {},
              !.emptyTileBytes = [isNil |-> TRUE, bytes |-> <<>>]]

\* C18: what Sample and Samples of a decoder return (values and error) is
\* what a decoder just opened on the same file returns for the same
\* coordinates, and whether the decoder's call fails and the values of a
\* call that succeeds are the same in every order in which it visits its
\* tiles; what Samples of a tile set returns is what a new tile set over
\* the same files returns.
C18_Deterministic ==
    /\ last.op = "Sample" =>
           LET r == Sample(Fresh(last.pre), last.coords[1]) IN
           last.val = r.val /\ last.err = r.err
    /\ last.op = "Samples" =>
           \A order \in SamplesOrders(last.pre, last.coords) :
               LET r == Samples(Fresh(last.pre), last.coords, order) IN
               /\ order = last.order => (r.val = last.val /\ r.err = last.err)
               /\ (r.err = NoErr) = (last.err = NoErr)
               /\ r.err = NoErr => r.val = last.val
    /\ lastSet.op = "Samples" =>
           lastSet.ret = SetSamples(NewGeoTIFFTileSet, lastSet.coords, lastSet.order).ret

\* ------------------------------------------------------------------------
\* The keys of the decoder's tile cache.
CachedTiles(t) == {t.tileCache[i].key : i \in 1..Len(t.tileCache)}

\* C19: the decoder's tile cache never holds more decoded tiles than
\* max(tileCacheSizeBytes div the bytes of one uncompressed tile, 1), one
\* array per tile, whatever calls were made.
C19_TileCacheWithinBudget ==
    /\ Len(f.tileCache) <=
           Max(f.tileCacheSizeBytes \div (f.tileWidth * f.tileLength * 4), 1)
    /\ Cardinality(CachedTiles(f)) = Len(f.tileCache)

\* C19's case: with a budget below the size of one tile, a call that loads
\* a tile while another one is cached; the cache holds the new tile alone.
C19_Witness ==
    /\ last.op # "none" /\ last.err = NoErr
    /\ f.tileCacheSizeBytes = 0
    /\ Len(last.pre.tileCache) = 1
    /\ last.reads # <<>>
    /\ Len(f.tileCache) = 1
    /\ CachedTiles(f) # CachedTiles(last.pre)

\* ------------------------------------------------------------------------
\* Claims about ParseGeoKeys (under SpecGeoKeys).

\* The header of a key directory is the one ParseGeoKeys accepts.
GeoHeaderValid(d) ==
    /\ Len(d) >= 4
    /\ d[1] = 1 /\ d[2] = 1 /\ d[3] \in {0, 1}
    /\ Len(d) = 4 + 4 * d[4]

\* The key entries <<key, location, count, value or offset>> of a directory
\* with a valid header.
GeoEntries(d) == [i \in 1..d[4] |-> SubSeq(d, 4 * i + 1, 4 * i + 4)]

\* An entry of a location other than the three, or of a count other than 1
\* where it must be 1.
GeoEntryRejected(e) ==
    \/ e[2] \notin {0, 34736, 34737}
    \/ e[2] \in {0, 34736} /\ e[3] # 1

\* An entry whose offset points outside doubleParams or whose bytes reach
\* beyond the capacity of asciiParams.
GeoEntryOutOfRange(e, doubleParams, asciiParams) ==
    \/ e[2] = 34736 /\ e[3] = 1 /\ e[4] >= Len(doubleParams)
    \/ e[2] = 34737 /\ e[4] + e[3] > Len(asciiParams.data) + Len(asciiParams.spare)

\* The map holding, for every key with an entry of the location, what
\* valueOf gives for the last such entry.
GeoFiled(es, location, valueOf(_)) ==
    LET at(k) == {i \in 1..Len(es) : es[i][1] = k /\ es[i][2] = location} IN
    [k \in {es[i][1] : i \in {j \in 1..Len(es) : es[j][2] = location}} |->
        valueOf(es[CHOOSE i \in at(k) : \A j \in at(k) : j <= i])]

\* C20: ParseGeoKeys returns a result only for a directory of at least 4
\* entries with version 1, key revision 1, minor revision 0 or 1 and length
\* 4 + 4*numberOfKeys whose keys all have location 0 with count 1, 34736
\* with count 1 or 34737; the result then holds each key of location 0 in
\* Params with its inline value, each key of 34736 in DoubleParams with
\* doubleParams[offset] and each key of 34737 in ASCIIParams with
\* asciiParams[offset : offset+count]; a header violation, another
\* location or a wrong count returns an error and no result.  (An offset
\* outside the arrays makes the index expression panic; the error cases
\* are those in which no earlier key has such an offset.)
C20_GeoKeysFiled ==
    call.op = "ParseGeoKeys" =>
        LET d == call.in.directory
            dp == call.in.doubleParams
            ap == call.in.asciiParams
            bytes == ap.data \o ap.spare
            es == GeoEntries(d)
            rejected == {i \in 1..Len(es) : GeoEntryRejected(es[i])}
            outOfRange == {i \in 1..Len(es) : GeoEntryOutOfRange(es[i], dp, ap)}
            inline(e) == e[4]
            double(e) == dp[e[4] + 1]
            ascii(e) == [j \in 1..e[3] |-> bytes[e[4] + j]]
        IN
        IF ~GeoHeaderValid(d)
        THEN call.out.isNil /\ call.out.err = errParse
        ELSE /\ ~call.out.isNil <=> (rejected = {} /\ outOfRange = {})
             /\ ~call.out.isNil =>
                    /\ call.out.err = NoErr
                    /\ call.out.parsed.Params = GeoFiled(es, 0, inline)
                    /\ call.out.parsed.DoubleParams = GeoFiled(es, 34736, double)
                    /\ call.out.parsed.ASCIIParams = GeoFiled(es, 34737, ascii)
             /\ \A i \in rejected :
                    (\A j \in outOfRange : j > i) =>
                        call.out.isNil /\ call.out.err \in {errParse, "unsupported"}

\* C20's case: a directory of two keys, one filed with a double and one
\* with the two bytes "ab" of the three of asciiParams.
C20_Witness ==
    /\ call.op = "ParseGeoKeys" /\ ~call.out.isNil
    /\ call.in.directory[4] = 2
    /\ DOMAIN call.out.parsed.DoubleParams # {}
    /\ \E k \in DOMAIN call.out.parsed.ASCIIParams :
           call.out.parsed.ASCIIParams[k] = <<"a", "b">>

\* ------------------------------------------------------------------------
\* The local tiles of the coordinates of a batch that lie in the image.
InBoundsTiles(t, coords) ==
    {localTileCoord(t, localCoord(t, coords[i])).tc :
        i \in {j \in 1..Len(coords) : localTileCoord(t, localCoord(t, coords[j])).ok}}

\* A sequence without repetition.
NoRepeat(q) == \A i, j \in 1..Len(q) : q[i] = q[j] => i = j

\* C21: within one call of Samples every tile is looked up once.  The
\* decoder calls getTileSamplesCached once for each local tile of the
\* coordinates inside the image and for no other tile (for all of them
\* when the call succeeds); the tile set calls getTileCached once for each
\* tile coordinate of the covered coordinates and for no other (for all
\* of them when the call succeeds), and the decoder's Samples once for
\* each lookup that returned a decoder, never otherwise.
C21_OneLookupPerTile ==
    /\ last.op = "Samples" =>
           /\ NoRepeat(last.fetched)
           /\ {last.fetched[k] : k \in 1..Len(last.fetched)}
                  \subseteq InBoundsTiles(last.pre, last.coords)
           /\ last.err = NoErr => Len(last.fetched) =
                  Cardinality(InBoundsTiles(last.pre, last.coords))
    /\ lastSet.op = "Samples" =>
           /\ NoRepeat([k \in 1..Len(lastSet.log) |-> lastSet.log[k].tc])
           /\ {lastSet.log[k].tc : k \in 1..Len(lastSet.log)}
                  \subseteq groupTileCoords(lastSet.coords)
           /\ lastSet.ret.err = NoErr =>
                  Len(lastSet.log) = Cardinality(groupTileCoords(lastSet.coords))
           /\ \A k \in 1..Len(lastSet.log) :
                  lastSet.log[k].sampled =
                      IF lastSet.log[k].err = NoErr /\ ~lastSet.log[k].isNil THEN 1 ELSE 0

\* C21's case: a batch of the decoder with more coordinates than tiles,
\* two of them in one tile.
C21_Witness ==
    /\ last.op = "Samples" /\ last.err = NoErr
    /\ Len(last.coords) = MaxBatch
    /\ last.coords[1] # last.coords[2]
    /\ Len(last.fetched) = 1
    /\ \A i \in 1..Len(last.coords) :
           localTileCoord(last.pre, localCoord(last.pre, last.coords[i])).ok

\* ------------------------------------------------------------------------
\* Concurrent callers of one decoder.  Each goroutine of Procs runs
\* getTileSamplesCached step by step: the checks before the mutex, the
\* acquisition of f.mutex with the repeated checks, getTileSamples, the
\* store with the deferred Unlock.  callers[p] is then a record
\*   [pc, cur, read, seen, samples, err]
\* cur: the local tile asked for; read: getTileSamples ran in this call;
\* seen: what another caller stored for cur while this one waited for the
\* mutex; samples, err: what getTileSamples or the call returned.

NoTileSeen == [kind |-> "none", samples |-> Nil]

IdleReader ==
    [pc |-> "idle", cur |-> TileCoord(0, 0), read |-> FALSE, seen |-> NoTileSeen,
     samples |-> Nil, err |-> NoErr]

\* The local tile coordinates of the decoder.
LocalTiles(t) ==
    {TileCoord(c, r) : c \in 0..(t.tilesAcross - 1), r \in 0..(t.tilesDown - 1)}

\* One decoder with room for one decoded tile in its cache, its callers
\* idle.
InitDecoder ==
    /\ f \in {NewGeoTIFFTile(file, DecoderCacheBytes).tile : file \in DecoderFiles}
    /\ last = NoCall
    /\ s = NewGeoTIFFTileSet
    /\ lastSet = NoSetCall
    /\ callers = [p \in Procs |-> IdleReader]
    /\ call = NoPureCall

\* Caller p becomes c and the decoder t.
readerMoves(p, c, t) ==
    /\ callers' = [callers EXCEPT ![p] = c]
    /\ f' = t
    /\ UNCHANGED <<last, s, lastSet, call>>

\* getTileSamplesCached returns samples, err to the caller.
readerReturned(c, samples, err) ==
    [c EXCEPT !.pc = "returned", !.samples = samples, !.err = err]

\* What the callers waiting for the mutex see of the store of r.
tileSeen(r) ==
    IF r.err # NoErr THEN [kind |-> "error", samples |-> Nil]
    ELSE IF r.samples = Nil THEN [kind |-> "empty", samples |-> Nil]
    ELSE [kind |-> "samples", samples |-> r.samples]

\* p calls f.getTileSamplesCached(localTileCoord).
CallTileSamples(p) ==
    /\ callers[p].pc = "idle"
    /\ \E tc \in LocalTiles(f) :
        readerMoves(p, [IdleReader EXCEPT !.pc = "check", !.cur = tc], f)

\* The checks before the mutex: emptyTiles.Load, then tileCache.Get.
tileChecked(p, chk) ==
    IF chk.done THEN readerMoves(p, readerReturned(callers[p], chk.samples, chk.err), chk.t)
    ELSE readerMoves(p, [callers[p] EXCEPT !.pc = "lock"], f)

CheckTile(p) ==
    /\ callers[p].pc = "check"
    /\ tileChecked(p, tileCachesChecked(f, callers[p].cur))

\* p acquires f.mutex and repeats the checks; the deferred Unlock runs
\* when they answer.
tileLockedNoMutex(p, chk) ==
    IF chk.done THEN readerMoves(p, readerReturned(callers[p], chk.samples, chk.err), chk.t)
    ELSE readerMoves(p, [callers[p] EXCEPT !.pc = "read"], f)

tileLocked(p, chk) ==
    IF chk.done THEN readerMoves(p, readerReturned(callers[p], chk.samples, chk.err), chk.t)
    ELSE readerMoves(p, [callers[p] EXCEPT !.pc = "read"], [f EXCEPT !.mutex = p])

LockTile(p) ==
    /\ callers[p].pc = "lock"
    /\ f.mutex = ""
    /\ tileLocked(p, recheckTileCaches(f, callers[p].cur))

\* p, holding the mutex, runs getTileSamples: the read, the decompression,
\* the decoding and the empty-tile test.
tileRead(p, g) ==
    readerMoves(p, [callers[p] EXCEPT !.pc = "store", !.read = TRUE,
                                      !.samples = g.samples, !.err = g.err], g.t)

ReadTile(p) ==
    /\ callers[p].pc = "read"
    /\ tileRead(p, getTileSamples(f, callers[p].cur))

\* p stores what getTileSamples returned and getTileSamplesCached returns,
\* releasing the mutex; the callers waiting for the mutex on the same tile
\* are the ones that missed it concurrently.
readerStores(p, r) ==
    /\ callers' = [q \in Procs |->
                      IF q = p THEN readerReturned(callers[p], r.samples, r.err)
                      ELSE IF callers[q].pc = "lock" /\ callers[q].cur = callers[p].cur
                      THEN [callers[q] EXCEPT !.seen = tileSeen(r)]
                      ELSE callers[q]]
    /\ f' = [r.t EXCEPT !.mutex = ""]
    /\ UNCHANGED <<last, s, lastSet, call>>

StoreTile(p) ==
    /\ callers[p].pc = "store"
    /\ readerStores(p, storeTileSamples(callers[p].cur,
                         [t |-> f, samples |-> callers[p].samples, err |-> callers[p].err]))

\* The caller takes what getTileSamplesCached returned.
TakeTileSamples(p) ==
    /\ callers[p].pc = "returned"
    /\ readerMoves(p, IdleReader, f)

NextDecoder ==
    \E p \in Procs :
        \/ CallTileSamples(p)
        \/ CheckTile(p)
        \/ LockTile(p)
        \/ ReadTile(p)
        \/ StoreTile(p)
        \/ TakeTileSamples(p)

SpecDecoder == InitDecoder /\ [][NextDecoder]_vars

\* The callers that hold the decoder's mutex inside getTileSamplesCached.
Loading == {p \in Procs : callers[p].pc \in {"read", "store"}}

\* C22, as stated: of the callers that missed one local tile concurrently
\* one runs getTileSamples; a caller that waited for the mutex while
\* another one loaded its tile runs getTileSamples only when the stored
\* samples were evicted since.
C22_SingleRead ==
    \A p \in Procs :
        callers[p].read =>
            \/ callers[p].seen.kind = "none"
            \/ /\ callers[p].seen.kind = "samples"
               /\ callers[p].pc = "read" => ~lruContains(f.tileCache, callers[p].cur)

\* C22, amended: one caller at a time runs getTileSamples, holding the
\* mutex and only after the checks repeated under the mutex found the tile
\* neither known empty nor cached; a caller that waited while another one
\* loaded its tile returns what that one stored without reading, and reads
\* only when that load returned an error or the stored samples have been
\* evicted since.
C22_SingleReadAmended ==
    /\ Cardinality(Loading) <= 1
    /\ \A p \in Procs : p \in Loading <=> f.mutex = p
    /\ \A p \in Procs :
           callers[p].pc = "read" =>
               /\ callers[p].cur \notin f.emptyTiles
               /\ ~lruContains(f.tileCache, callers[p].cur)
               /\ callers[p].seen.kind # "empty"
    /\ \A p \in Procs :
           callers[p].read => callers[p].seen.kind \in {"none", "error", "samples"}
    /\ \A p \in Procs :
           (callers[p].pc = "returned" /\ ~callers[p].read) =>
               /\ callers[p].err = NoErr
               /\ callers[p].seen.kind # "error"
               /\ callers[p].seen.kind = "empty" => callers[p].samples = Nil
               /\ callers[p].seen.kind = "samples" =>
                      callers[p].samples = callers[p].seen.samples

\* C22's case: two callers missed the same tile concurrently; one read it
\* and the other, having waited for the mutex, returned the stored samples
\* without reading.
C22_Witness ==
    \E p, q \in Procs :
        /\ p # q
        /\ callers[p].pc = "returned" /\ callers[p].read /\ callers[p].err = NoErr
        /\ callers[q].pc = "returned" /\ ~callers[q].read
        /\ callers[q].cur = callers[p].cur
        /\ callers[q].seen.kind = "samples"
        /\ callers[q].samples = callers[p].samples

\* C23: while a caller runs getTile for tile coordinate A inside
\* getTileCached, no caller that missed another tile coordinate B waits
\* for it: a caller at the mutex of getTileCached is never kept from
\* proceeding by a caller that holds the mutex for another tile coordinate.
C23_UnrelatedOpenNotBlocked ==
    \A p, q \in Procs :
        (callers[p].pc = "open" /\ s.mutex = p /\ callers[q].pc = "lock") =>
            callers[q].cur = callers[p].cur

\* C24: while a caller reads and decompresses local tile A inside
\* getTileSamplesCached, no caller that missed another local tile B of the
\* decoder waits for it: a caller at the mutex of getTileSamplesCached is
\* never kept from proceeding by a caller that holds the mutex for another
\* local tile.
C24_UnrelatedReadNotBlocked ==
    \A p, q \in Procs :
        (callers[p].pc = "read" /\ f.mutex = p /\ callers[q].pc = "lock") =>
            callers[q].cur = callers[p].cur

\* ------------------------------------------------------------------------
\* The callers of a tile set or the callers of a decoder.

InitCaches == InitSet \/ InitDecoder

NextCaches == (f = ZeroTile /\ Next) \/ (f # ZeroTile /\ NextDecoder)

SpecCaches == InitCaches /\ [][NextCaches]_vars

\* The tile coordinate is in the open-decoder cache or marked missing.
TileHit(tileCoord) ==
    tileCoord \in s.missingTiles \/ lruContains(s.geoTIFFTileCache, tileCoord)

\* The local tile is in the tile cache or known empty.
LocalTileHit(tc) == tc \in f.emptyTiles \/ lruContains(f.tileCache, tc)

\* Caller p of the tile set is about to look up tile coordinates that hit.
AtTileHit(p) ==
    /\ f = ZeroTile
    /\ callers[p].pc = "range"
    /\ callers[p].todo # {}
    /\ \A tileCoord \in callers[p].todo : TileHit(tileCoord)

\* Caller p of the decoder is about to check a local tile that hits.
AtLocalTileHit(p) ==
    /\ f # ZeroTile
    /\ callers[p].pc = "check"
    /\ LocalTileHit(callers[p].cur)

\* C25: a caller about to look up a cached or missing tile coordinate, or a
\* cached or known-empty local tile, can take its step whoever holds the
\* mutex, and the step returns the answer without acquiring the mutex: the
\* caller never comes to wait for the mutex and the mutex is left as it is.
C25_HitsNeverWait ==
    /\ [](\A p \in Procs : (AtTileHit(p) => ENABLED Lookup(p))
                        /\ (AtLocalTileHit(p) => ENABLED CheckTile(p)))
    /\ [][\A p \in Procs :
            /\ (AtTileHit(p) /\ callers'[p] # callers[p]) =>
                   /\ callers'[p].pc \in {"sample", "range"}
                   /\ s'.mutex = s.mutex
            /\ (AtLocalTileHit(p) /\ callers'[p] # callers[p]) =>
                   /\ callers'[p].pc = "returned"
                   /\ ~callers'[p].read
                   /\ f'.mutex = f.mutex]_vars

\* C25's case: a caller of the decoder is about to check a cached local
\* tile while another caller holds the mutex reading a different tile.
C25_Witness ==
    \E p, q \in Procs :
        /\ AtLocalTileHit(p)
        /\ lruContains(f.tileCache, callers[p].cur)
        /\ f.mutex = q
        /\ callers[q].pc = "read"
        /\ callers[q].cur # callers[p].cur

\* C25's case in the tile set: a caller is about to look up a cached tile
\* coordinate while another caller holds the mutex opening a different one.
C25_WitnessSet ==
    \E p, q \in Procs :
        /\ AtTileHit(p)
        /\ \A tileCoord \in callers[p].todo : lruContains(s.geoTIFFTileCache, tileCoord)
        /\ s.mutex = q
        /\ callers[q].pc = "open"
        /\ callers[q].cur \notin callers[p].todo

\* ------------------------------------------------------------------------
\* A tile set whose cache of decoders has room for one decoder more than
\* cacheSize, called by one caller.

InitSizes ==
    /\ f = ZeroTile
    /\ last = NoCall
    /\ s = WithCacheSize(NewGeoTIFFTileSet, cacheSize + 1)
    /\ lastSet = NoSetCall
    /\ callers = [p \in Procs |-> Idle]
    /\ call = NoPureCall

SpecSizes == InitSizes /\ [][NextSet]_vars

\* The tile coordinates in a cache of decoders.
lruKeys(cache) == {cache[i].key : i \in 1..Len(cache)}

\* The lookups of the call that used the cache of decoders: the hits and
\* the insertions, of a decoder or of the nil of a file found missing,
\* among them the insertion whose eviction callback panicked.
UsesOf(log) ==
    {k \in 1..Len(log) :
        \/ log[k].err = NoErr /\ (~log[k].isNil \/ log[k].probed)
        \/ log[k].err = "panic: nil pointer dereference"}

\* When the decoder of tc was last used, as seen at the end of the call:
\* the place in the call's lookups if the call used it, else the negated
\* place in the cache before the call (the front of the cache is the most
\* recently used).
LastUse(pre, log, tc) ==
    IF \E k \in UsesOf(log) : log[k].tc = tc
    THEN CHOOSE k \in UsesOf(log) : log[k].tc = tc
    ELSE 0 - lruIndex(pre.geoTIFFTileCache, tc)

\* The tile coordinates whose decoder the call evicted.
EvictedBy(pre, log, post) ==
    (lruKeys(pre.geoTIFFTileCache) \cup {log[k].tc : k \in UsesOf(log)})
        \ lruKeys(post.geoTIFFTileCache)

\* C26: every entry a call of Samples evicted was last used (hit or
\* inserted) before every entry the cache holds after the call, and
\* eviction happens only from a full cache.
C26_EvictsLeastRecentlyUsed ==
    lastSet.op = "Samples" =>
        /\ \A e \in EvictedBy(lastSet.pre, lastSet.log, s) :
               /\ Len(s.geoTIFFTileCache) = s.cacheSize
               /\ \A c \in lruKeys(s.geoTIFFTileCache) :
                      LastUse(lastSet.pre, lastSet.log, e) < LastUse(lastSet.pre, lastSet.log, c)
        /\ \A i, j \in 1..Len(s.geoTIFFTileCache) :
               i < j => LastUse(lastSet.pre, lastSet.log, s.geoTIFFTileCache[i].key)
                            > LastUse(lastSet.pre, lastSet.log, s.geoTIFFTileCache[j].key)

\* C26's case: the cache held two decoders; the call hit the older one and
\* then inserted a third, which evicted the other one.
C26_Witness ==
    /\ lastSet.op = "Samples"
    /\ Len(lastSet.pre.geoTIFFTileCache) = 2
    /\ Len(lastSet.log) = 2
    /\ UsesOf(lastSet.log) = {1, 2}
    /\ lastSet.log[1].tc = lastSet.pre.geoTIFFTileCache[2].key
    /\ lastSet.log[2].tc \notin lruKeys(lastSet.pre.geoTIFFTileCache)
    /\ EvictedBy(lastSet.pre, lastSet.log, s) = {lastSet.pre.geoTIFFTileCache[1].key}

\* The decoder the cache of decoders resolves tileCoord to is h.
ResolvesTo(t, tileCoord, h) ==
    \E i \in 1..Len(t.geoTIFFTileCache) :
        t.geoTIFFTileCache[i].key = tileCoord /\ t.geoTIFFTileCache[i].value = h

\* C27: every decoder in the cache of decoders is open and is the decoder
\* of its tile coordinate, so a closed decoder is not resolvable (an entry
\* without a decoder belongs to a tile marked missing, which is answered
\* before the cache is consulted); and the
\* decoder getTileCached returns to a caller is, when it returns, open and
\* the one the cache resolves the tile coordinate to.
C27_ResolvableIsOpen ==
    /\ [](\A i \in 1..Len(s.geoTIFFTileCache) :
            IF s.geoTIFFTileCache[i].value = NoHandle
            THEN s.geoTIFFTileCache[i].key \in s.missingTiles
            ELSE /\ s.geoTIFFTileCache[i].value \in DOMAIN s.heap
                 /\ ~s.heap[s.geoTIFFTileCache[i].value].t.closed
                 /\ s.geoTIFFTileCache[i].value.tc = s.geoTIFFTileCache[i].key)
    /\ [][\A p \in Procs :
            (callers[p].pc # "sample" /\ callers'[p].pc = "sample") =>
                /\ ~s'.heap[callers'[p].tile].t.closed
                /\ ResolvesTo(s', callers'[p].cur, callers'[p].tile)]_vars

\* C27's case: the decoder of a tile coordinate was evicted and closed, and
\* a later getTileCached for the coordinate has opened a fresh decoder,
\* which the caller is about to sample.
C27_Witness ==
    \E p \in Procs : \E h \in DOMAIN s.heap :
        /\ callers[p].pc = "sample"
        /\ h.tc = callers[p].cur
        /\ h # callers[p].tile
        /\ s.heap[h].t.closed
        /\ ~s.heap[callers[p].tile].t.closed
        /\ ResolvesTo(s, callers[p].cur, callers[p].tile)

\* C28: the empty-tile bytes change only from unknown to known, and
\* getTileSamples and getCompressedTileData, the only code that reads or
\* writes them, run only in a caller that holds the decoder's mutex, one
\* caller at a time.
C28_SignatureLearnedOnce ==
    /\ [](/\ Cardinality(Loading) <= 1
          /\ \A p \in Procs : callers[p].pc = "read" => f.mutex = p)
    /\ [][/\ f'.emptyTileBytes # f.emptyTileBytes =>
                /\ f.emptyTileBytes.isNil
                /\ ~f'.emptyTileBytes.isNil
                /\ f.mutex \in Procs
                /\ callers[f.mutex].pc = "read"
                /\ callers'[f.mutex].pc = "store"
                /\ f'.mutex = f.mutex
          /\ \A p \in Procs :
                (~callers[p].read /\ callers'[p].read) =>
                    /\ f.mutex = p
                    /\ f'.mutex = p
                    /\ \A q \in Procs \ {p} : callers'[q] = callers[q]]_vars

\* C28's case: the empty-tile bytes are known from one tile, and a caller
\* holding the mutex has just found another tile's bytes equal to them.
C28_Witness ==
    /\ ~f.emptyTileBytes.isNil
    /\ f.emptyTiles # {}
    /\ \E p \in Procs :
           /\ callers[p].pc = "store"
           /\ f.mutex = p
           /\ callers[p].samples = Nil
           /\ callers[p].err = NoErr
           /\ callers[p].cur \notin f.emptyTiles

\* C29: the known-empty set and the tile cache share no local tile and the
\* cache holds no empty result; the known-empty set only grows; the store
\* of a tile found empty puts it in the known-empty set and leaves the
\* cache as it is; a lookup of a known-empty tile returns the empty result
\* in its first check, without reading the file.
C29_EmptyTilesKeptApart ==
    /\ [](/\ f.emptyTiles \cap CachedTiles(f) = {}
          /\ \A i \in 1..Len(f.tileCache) : f.tileCache[i].value # Nil
          /\ \A p \in Procs : callers[p].pc = "read" => callers[p].cur \notin f.emptyTiles)
    /\ [][/\ f.emptyTiles \subseteq f'.emptyTiles
          /\ \A p \in Procs :
                /\ (callers[p].pc = "store" /\ callers[p].err = NoErr
                        /\ callers[p].samples = Nil /\ callers'[p] # callers[p]) =>
                       /\ f'.emptyTiles = f.emptyTiles \cup {callers[p].cur}
                       /\ f'.tileCache = f.tileCache
                /\ (callers[p].pc = "check" /\ callers[p].cur \in f.emptyTiles
                        /\ callers'[p] # callers[p]) =>
                       /\ callers'[p].pc = "returned"
                       /\ ~callers'[p].read
                       /\ callers'[p].samples = Nil
                       /\ callers'[p].err = NoErr
                       /\ f' = f]_vars

\* C29's case: one tile is known empty and another is cached; a caller
\* that asked for the known-empty tile has returned the empty result
\* without reading.
C29_Witness ==
    /\ f.tileCache # <<>>
    /\ \E p \in Procs :
           /\ callers[p].pc = "returned"
           /\ callers[p].cur \in f.emptyTiles
           /\ ~callers[p].read
           /\ callers[p].seen.kind = "none"
           /\ callers[p].samples = Nil

\* What ReadAt yields for the local tile tc of t.
TileRead(t, tc) ==
    ReadAt(t, t.tileOffsets[tc.C + t.tilesAcross * tc.R + 1],
              t.tileByteCounts[tc.C + t.tilesAcross * tc.R + 1])

\* The read of the local tile succeeds and its bytes expand to a whole
\* tile.
TileDecodes(t, tc) ==
    /\ TileRead(t, tc).err = NoErr
    /\ Len(lzwExpand(TileRead(t, tc).data, t.tileSampleCount)) = t.tileSampleCount

\* The samples the file holds for the local tile.
TileDecoded(t, tc) ==
    [i \in 1..t.tileSampleCount |->
        Float32frombits(lzwExpand(TileRead(t, tc).data, t.tileSampleCount)[i])]

\* The bytes of the local tile equal the learned empty-tile bytes.
MatchesSignature(t, tc) ==
    /\ TileRead(t, tc).err = NoErr
    /\ ~t.emptyTileBytes.isNil
    /\ TileRead(t, tc).data = t.emptyTileBytes.bytes

\* No empty-tile bytes are known, the local tile is of the smallest byte
\* count and every sample of it is the no-data value.
FirstEmptyTile(t, tc) ==
    /\ TileDecodes(t, tc)
    /\ t.emptyTileBytes.isNil
    /\ Len(TileRead(t, tc).data) = t.smallestTileByteCount
    /\ \A i \in 1..t.tileSampleCount : TileDecoded(t, tc)[i] = noData

\* C30: getTileSamples returns the empty result exactly when the tile's
\* bytes equal the learned empty-tile bytes, which stay as they are, or
\* when no empty-tile bytes are known, the tile is of the smallest byte
\* count and all its samples are no-data, and then its bytes become the
\* empty-tile bytes; a tile that decodes and has a sample other than
\* no-data is returned with its samples, and such a sample is not NaN.
C30_EmptyOnlyWhenAllNoData ==
    [][\A p \in Procs :
          (callers[p].pc = "read" /\ callers'[p].pc = "store") =>
              LET tc == callers[p].cur
                  r == callers'[p]
              IN
              /\ (r.err = NoErr /\ r.samples = Nil) <=>
                     (MatchesSignature(f, tc) \/ FirstEmptyTile(f, tc))
              /\ MatchesSignature(f, tc) => f' = f
              /\ FirstEmptyTile(f, tc) =>
                     f' = [f EXCEPT !.emptyTileBytes =
                                        [isNil |-> FALSE, bytes |-> TileRead(f, tc).data]]
              /\ ~FirstEmptyTile(f, tc) => f' = f
              /\ (/\ TileDecodes(f, tc)
                  /\ \E i \in 1..f.tileSampleCount : TileDecoded(f, tc)[i] # noData) =>
                     /\ r.err = NoErr
                     /\ r.samples = TileDecoded(f, tc)
                     /\ \A x \in 0..(f.tileWidth - 1), y \in 0..(f.tileLength - 1) :
                            LET v == TileDecoded(f, tc)[x + y * f.tileWidth + 1] IN
                            v # noData =>
                                /\ tileSample(f, r.samples, Coord(x, y)) = v
                                /\ tileSample(f, r.samples, Coord(x, y)) # NaN]_vars

\* C30's case: the empty-tile bytes are known, and getTileSamples has
\* returned the samples of a tile that holds a no-data sample next to real
\* ones.
C30_Witness ==
    /\ ~f.emptyTileBytes.isNil
    /\ \E p \in Procs :
           /\ callers[p].pc = "store"
           /\ callers[p].err = NoErr
           /\ callers[p].samples # Nil
           /\ \E i, j \in 1..Len(callers[p].samples) :
                  callers[p].samples[i] = noData /\ callers[p].samples[j] # noData

\* The read of the local tile's bytes fails: an error, or fewer bytes than
\* the recorded byte count.
TileReadFails(t, tc) ==
    \/ TileRead(t, tc).err # NoErr
    \/ TileRead(t, tc).n # t.tileByteCounts[tc.C + t.tilesAcross * tc.R + 1]

\* C31: a tile whose bytes cannot be read is never cached nor known empty;
\* getTileSamples on it returns an error and leaves the decoder as it is;
\* getTileSamplesCached then returns the error, changing nothing but the
\* mutex it releases; and every lookup of the tile misses both checks and
\* reads the file again.
C31_FailedReadNotCached ==
    /\ [](\A tc \in LocalTiles(f) :
             TileReadFails(f, tc) => tc \notin f.emptyTiles /\ tc \notin CachedTiles(f))
    /\ [][\A p \in Procs :
            (TileReadFails(f, callers[p].cur) /\ callers'[p].pc # callers[p].pc) =>
                /\ callers[p].pc = "check" => callers'[p].pc = "lock" /\ f' = f
                /\ callers[p].pc = "lock" =>
                       callers'[p].pc = "read" /\ f' = [f EXCEPT !.mutex = p]
                /\ callers[p].pc = "read" =>
                       /\ callers'[p].pc = "store"
                       /\ callers'[p].err # NoErr
                       /\ callers'[p].samples = Nil
                       /\ f' = f
                /\ callers[p].pc = "store" =>
                       /\ callers'[p].pc = "returned"
                       /\ callers'[p].err = callers[p].err
                       /\ callers'[p].samples = Nil
                       /\ f' = [f EXCEPT !.mutex = ""]]_vars

\* C31's case: a caller waited for the mutex while another caller's read of
\* its tile failed, read the tile again and returned the error.
C31_Witness ==
    \E p \in Procs :
        /\ callers[p].pc = "returned"
        /\ TileReadFails(f, callers[p].cur)
        /\ callers[p].seen.kind = "error"
        /\ callers[p].read
        /\ callers[p].err # NoErr
        /\ f.emptyTiles = {}
        /\ f.tileCache # <<>>

\* C32: every entry of the cache of decoders holds an open decoder, none
\* the nil decoder of a missing file, and no tile coordinate is both marked
\* missing and in the cache.
C32_CacheHoldsOnlyDecoders ==
    \A i \in 1..Len(s.geoTIFFTileCache) :
        /\ s.geoTIFFTileCache[i].value # NoHandle
        /\ s.geoTIFFTileCache[i].key \notin s.missingTiles
        /\ s.geoTIFFTileCache[i].value \in DOMAIN s.heap
        /\ ~s.heap[s.geoTIFFTileCache[i].value].t.closed

\* C33: whenever NewGeoTIFFTile fails after fsys.Open succeeded (the handle
\* is not an OS file, the TIFF does not parse, the number of directories is
\* not one, the directory is outside the profile, a table length is wrong,
\* the scale or origin is not integral), the handle it opened is closed when
\* the error is returned.
C33_FailedOpenNeverLeaks ==
    (call.op = "NewGeoTIFFTile" /\ call.in.file.exists /\ ~call.out.ok) =>
        ~call.out.leaked

\* An entry whose offset lies outside doubleParams or whose bytes
\* offset .. offset+count reach beyond the length of asciiParams.
GeoEntryOutsideInputs(e, doubleParams, asciiParams) ==
    \/ e[2] = GeoDoubleParamsTag /\ e[4] >= Len(doubleParams)
    \/ e[2] = GeoASCIIParamsTag /\ e[4] + e[3] > Len(asciiParams.data)

\* C36: on a key directory that passes the header checks ParseGeoKeys
\* never panics on an index or slice expression, and when a key entry has
\* an offset (or offset + count) outside doubleParams or asciiParams it
\* returns an error and no result.
C36_GeoKeysNeverOutOfRange ==
    (call.op = "ParseGeoKeys" /\ GeoHeaderValid(call.in.directory)) =>
        LET es == GeoEntries(call.in.directory) IN
        /\ call.out.err \notin {"panic: index out of range",
                                "panic: slice bounds out of range"}
        /\ (\E i \in 1..Len(es) :
                GeoEntryOutsideInputs(es[i], call.in.doubleParams, call.in.asciiParams))
               => (call.out.isNil /\ call.out.err # NoErr)

\* ------------------------------------------------------------------------
\* EUDEMElevationService.Elevation4326 and the memory its slices live in.
\* mem is the sequence of float64 cells; a coordinate ([]float64) is a slice
\* header [base, len] over cells base .. base+len-1, and coords ([][]float64)
\* a sequence of headers.  make appends zeroed cells to mem.

\* The most coordinates of one call of Elevation4326.
MaxCoords == 2

\* What the caller's cells hold, and the caller's cells: two coordinates'
\* worth, so that rows can share and overlap.
CoordValues == {0, 20}
CallerMemories == [1..4 -> CoordValues]

\* The caller's coordinates: of one to three components, anywhere in the
\* caller's cells, two of them possibly the same or overlapping cells.
CallerRows == {r \in [base : 1..3, len : 1..3] : r.base + r.len - 1 <= 4}
CallerCoords == SeqsUpTo(CallerRows, MaxCoords)

\* coord[0 .. len-1], and coords as values.
rowValues(mem, coord) == [k \in 1..coord.len |-> mem[coord.base + k - 1]]
coordsValues(mem, coords) == [i \in 1..Len(coords) |-> rowValues(mem, coords[i])]

\* clonedCoords[i] = coord: the rows of the result are the caller's rows.
cloneCoordsShallow(mem, coords) == [mem |-> mem, coords |-> coords]

\* cloneCoords: a new flat array of 2*len(coords) zeroed cells, copy of
\* min(len(coord), 2) cells of each coord into its two cells, the result's
\* rows the two-cell slices of the flat array.
cloneCoords(mem, coords) ==
    LET flat == Len(mem)
        cell(j) ==
            LET coord == coords[GoDiv(j - 1, 2) + 1]
                k == (j - 1) % 2
            IN IF k < coord.len THEN mem[coord.base + k] ELSE 0
    IN [mem |-> mem \o [j \in 1..(2 * Len(coords)) |-> cell(j)],
        coords |-> [i \in 1..Len(coords) |-> [base |-> flat + 2 * i - 1, len |-> 2]]]

\* flipCoords from coordinate i on: coords[i][0], coords[i][1] = coord[1],
\* coord[0], one coordinate after the other; a coordinate of fewer than two
\* components panics.
RECURSIVE flipCoordsFrom(_, _, _)
flipCoordsFrom(mem, coords, i) ==
    IF i > Len(coords) THEN [mem |-> mem, err |-> NoErr]
    ELSE IF coords[i].len < 2 THEN [mem |-> mem, err |-> "panic: index out of range"]
    ELSE flipCoordsFrom([mem EXCEPT ![coords[i].base] = mem[coords[i].base + 1],
                                    ![coords[i].base + 1] = mem[coords[i].base]],
                        coords, i + 1)

flipCoords(mem, coords) == flipCoordsFrom(mem, coords, 1)

\* What the projection makes of one coordinate.  proj stands behind
\* ForwardFloat64Slices; the model has two transformations and the failure.
Projections == {"rotate", "shift", "error"}

projected(p, a, b) == IF p = "rotate" THEN <<b, 20 - a>> ELSE <<a + 20, b>>

\* pj.ForwardFloat64Slices(coords) from coordinate i on: each coordinate's
\* first two cells are overwritten in place.
RECURSIVE forwardFrom(_, _, _, _)
forwardFrom(mem, coords, p, i) ==
    IF i > Len(coords) THEN mem
    ELSE LET to == projected(p, mem[coords[i].base], mem[coords[i].base + 1]) IN
         forwardFrom([mem EXCEPT ![coords[i].base] = to[1], ![coords[i].base + 1] = to[2]],
                     coords, p, i + 1)

ForwardFloat64Slices(mem, coords, p) ==
    IF p = "error" THEN [mem |-> mem, err |-> "proj: error"]
    ELSE [mem |-> forwardFrom(mem, coords, p, 1), err |-> NoErr]

\* s.Elevation(coords): InterpolateBilinear over the service's raster.
Elevation(mem, coords) ==
    LET r == InterpolateBilinear(TestRaster, coordsValues(mem, coords)) IN
    [isNil |-> r.isNil, val |-> r.val, err |-> r.err]

\* Elevation4326 returns out.
elevationReturns(out) == call' = [call EXCEPT !.pc = "returned", !.out = out]

\* Elevation4326(coords4326) is called and clones its argument.
Elevation4326Call ==
    /\ call.op = "none"
    /\ \E mem \in CallerMemories, coords4326 \in CallerCoords :
        LET c == cloneCoords(mem, coords4326) IN
        call' = [op |-> "Elevation4326", pc |-> "cloned",
                 in |-> [mem |-> mem, coords4326 |-> coords4326],
                 mem |-> c.mem, coords3035 |-> c.coords,
                 out |-> [isNil |-> TRUE, val |-> <<>>, err |-> NoErr]]
    /\ UNCHANGED <<f, last, s, lastSet, callers>>

\* flipCoords(coords3035) returned r; then is where the call goes on.
flipped(r, then) ==
    IF r.err # NoErr THEN elevationReturns([isNil |-> TRUE, val |-> <<>>, err |-> r.err])
    ELSE call' = [call EXCEPT !.pc = then, !.mem = r.mem]

\* flipCoords(coords3035), before and after the projection.
FlipCoords ==
    /\ call.op = "Elevation4326" /\ call.pc \in {"cloned", "projected"}
    /\ flipped(flipCoords(call.mem, call.coords3035),
               IF call.pc = "cloned" THEN "flipped" ELSE "flippedBack")
    /\ UNCHANGED <<f, last, s, lastSet, callers>>

\* ForwardFloat64Slices returned r.
forwarded(r) ==
    IF r.err # NoErr THEN elevationReturns([isNil |-> TRUE, val |-> <<>>, err |-> r.err])
    ELSE call' = [call EXCEPT !.pc = "projected", !.mem = r.mem]

\* s.pj.ForwardFloat64Slices(coords3035); an error returns nil, err.
Forward ==
    /\ call.op = "Elevation4326" /\ call.pc = "flipped"
    /\ \E p \in Projections : forwarded(ForwardFloat64Slices(call.mem, call.coords3035, p))
    /\ UNCHANGED <<f, last, s, lastSet, callers>>

\* return s.Elevation(coords3035).
Elevate ==
    /\ call.op = "Elevation4326" /\ call.pc = "flippedBack"
    /\ elevationReturns(Elevation(call.mem, call.coords3035))
    /\ UNCHANGED <<f, last, s, lastSet, callers>>

\* The caller takes the elevations.
TakeElevation ==
    /\ call.op = "Elevation4326" /\ call.pc = "returned"
    /\ call' = NoPureCall
    /\ UNCHANGED <<f, last, s, lastSet, callers>>

NextService == Elevation4326Call \/ FlipCoords \/ Forward \/ Elevate \/ TakeElevation

SpecService == InitSet /\ [][NextService]_vars

\* The cells of a coordinate, and the first two components of a coordinate
\* given as values, zero where it has none.
rowCells(coord) == coord.base .. (coord.base + coord.len - 1)
firstTwo(v) == <<IF Len(v) >= 1 THEN v[1] ELSE 0, IF Len(v) >= 2 THEN v[2] ELSE 0>>
swapped(v) == <<v[2], v[1]>>

\* C35: Elevation4326 leaves the caller's coordinate slices unchanged: at
\* every point of the call the caller's cells hold what they held when it
\* was called; the coordinates it works on are a deep copy (two new cells
\* per coordinate, shared with no caller's coordinate and with no other
\* copy, holding the coordinate's first two components); each flipCoords
\* swaps the two components of every copied coordinate and touches nothing
\* else, the projection runs between the two on the swapped copy, and
\* flipCoords applied twice restores every coordinate.
C35_CallerCoordsUntouched ==
    /\ [](call.op = "Elevation4326" =>
            LET in == call.in
                c == call.coords3035
                n == Len(in.coords4326)
            IN
            /\ SubSeq(call.mem, 1, Len(in.mem)) = in.mem
            /\ coordsValues(call.mem, in.coords4326) = coordsValues(in.mem, in.coords4326)
            /\ Len(c) = n
            /\ \A i \in 1..n :
                /\ c[i].len = 2
                /\ rowCells(c[i]) \cap (1..Len(in.mem)) = {}
                /\ \A j \in 1..n : j # i => rowCells(c[i]) \cap rowCells(c[j]) = {}
                /\ call.pc = "cloned" =>
                       rowValues(call.mem, c[i]) = firstTwo(rowValues(in.mem, in.coords4326[i]))
                /\ call.pc = "flipped" =>
                       rowValues(call.mem, c[i])
                           = swapped(firstTwo(rowValues(in.mem, in.coords4326[i])))
            /\ flipCoords(flipCoords(call.mem, c).mem, c) = [mem |-> call.mem, err |-> NoErr])
    /\ [][(call.op = "Elevation4326" /\ call'.op = "Elevation4326"
           /\ call'.pc \in {"flipped", "flippedBack"}) =>
              /\ Len(call'.mem) = Len(call.mem)
              /\ \A i \in 1..Len(call.coords3035) :
                     rowValues(call'.mem, call.coords3035[i])
                         = swapped(rowValues(call.mem, call.coords3035[i]))
              /\ call.pc = "cloned" <=> call'.pc = "flipped"]_vars

\* C35's case: a call on two coordinates that are the same cells of the
\* caller, with different components, returned elevations after the
\* projection had changed the copy.
C35_Witness ==
    /\ call.op = "Elevation4326" /\ call.pc = "returned" /\ call.out.err = NoErr
    /\ Len(call.in.coords4326) = 2
    /\ call.in.coords4326[1] = call.in.coords4326[2]
    /\ call.in.coords4326[1].len = 2
    /\ call.in.mem[call.in.coords4326[1].base] # call.in.mem[call.in.coords4326[1].base + 1]
    /\ coordsValues(call.mem, call.coords3035) # coordsValues(call.in.mem, call.in.coords4326)

\* ------------------------------------------------------------------------
\* Termination of the calls under the scheduling of the goroutines.

\* The callers ask for the two rasters and for the square without a file:
\* with them every insertion into a full cache evicts a decoder or a nil
\* entry.  Each of these files opens, so no call is held back by the cap on
\* failed opens.
LiveCoords == {Coord(c * CellSize, 0) : c \in 0..2}

LiveCallSamples(p) ==
    /\ callers[p].pc = "idle"
    /\ \E coord \in LiveCoords :
        callerMoves(p, [Idle EXCEPT !.pc = "range", !.coords = <<coord>>,
                                    !.samples = setSamplesInitial(<<coord>>),
                                    !.todo = groupTileCoords(<<coord>>)], s)

NextLiveSet ==
    \E p \in Procs :
        \/ LiveCallSamples(p)
        \/ Lookup(p)
        \/ Lock(p)
        \/ Open(p)
        \/ Add(p)
        \/ TileSamples(p)
        \/ Return(p)
        \/ TakeReturn(p)

\* The decoders called concurrently: a first tile of data and a second
\* tile of every kind.
LiveFiles == {file \in DecoderFiles : Len(file.disk[1]) = 4}

InitLive ==
    \/ InitSet
    \/ /\ f \in {NewGeoTIFFTile(file, DecoderCacheBytes).tile : file \in LiveFiles}
       /\ last = NoCall
       /\ s = NewGeoTIFFTileSet
       /\ lastSet = NoSetCall
       /\ callers = [p \in Procs |-> IdleReader]
       /\ call = NoPureCall

NextLive == (f = ZeroTile /\ NextLiveSet) \/ (f # ZeroTile /\ NextDecoder)

\* The scheduling.  A goroutine that can take a step is scheduled: weak
\* fairness of each step of a caller.  A goroutine blocked in
\* sync.Mutex.Lock gets the mutex when it is released again and again:
\* strong fairness of the acquisitions (a waiter of more than a millisecond
\* puts the mutex in starvation mode, in which Unlock hands it to the waiter
\* at the front of the queue).  Whether a caller calls again is up to the
\* caller.  Open, TileSamples and ReadTile are enabled exactly at their pc
\* and every step of them leaves it (they return, as the opens and reads of
\* the file system do), so that their weak fairness is: the caller is not at
\* that pc for ever.
Scheduling ==
    \A p \in Procs :
        /\ WF_vars(f = ZeroTile /\ Lookup(p))
        /\ SF_vars(f = ZeroTile /\ Lock(p))
        /\ []<>(callers[p].pc # "open")
        /\ WF_vars(f = ZeroTile /\ Add(p))
        /\ []<>(callers[p].pc # "sample")
        /\ WF_vars(f = ZeroTile /\ Return(p))
        /\ WF_vars(f # ZeroTile /\ CheckTile(p))
        /\ SF_vars(f # ZeroTile /\ LockTile(p))
        /\ []<>(callers[p].pc # "read")
        /\ WF_vars(f # ZeroTile /\ StoreTile(p))

SpecLive == InitLive /\ [][NextLive]_vars /\ Scheduling

====
